---- MODULE Spec2Model ----
(***************************************************************************)
(* A model of pycubing: the NxN cube state engine (cube.py), the move      *)
(* grammar and move-list utilities (utils.py) and the 3x3 / 2x2 solving    *)
(* pipelines (solver/).  A grid is a function [0..r-1 -> [0..c-1 -> Color]]*)
(* (a numpy array), a cube is a function from the six face values to       *)
(* grids (the list self._cube), a move token is a sequence of one-character*)
(* strings and a move list is a sequence of tokens.                        *)
(***************************************************************************)
EXTENDS Integers, Sequences, FiniteSets, TLC

\* ------------------------------------------------------------------ enums
FRONT == 0
LEFT == 1
BACK == 2
RIGHT == 3
TOP == 4
BOTTOM == 5

GREEN == 0
ORANGE == 1
BLUE == 2
RED == 3
WHITE == 4
YELLOW == 5

\* ------------------------------------------------------------------ bounds
MaxN == 3
MaxTurns == 2

\* ------------------------------------------------- numpy array operations
\* (a comparison v = v is TRUE; evaluating it computes the value v at once, as
\* Python does, instead of when it is first read)

\* sequencing of statements: F applied to the value v, computed once
Then(v, F(_)) == CHOOSE r \in {F(x) : x \in {v}} : TRUE

\* for _ in range(n): c = step(c), for n in 0..3
Repeated(step(_), c, n) ==
    IF n = 0 THEN c
    ELSE Then(step(c), LAMBDA c1 :
             IF n = 1 THEN c1
             ELSE Then(step(c1), LAMBDA c2 : IF n = 2 THEN c2 ELSE step(c2)))

Shape0(m) == Cardinality(DOMAIN m)
Shape1(m) == IF Shape0(m) = 0 THEN 0 ELSE Cardinality(DOMAIN m[0])

\* x[:, a:b]
Cols(m, a, b) == [i \in DOMAIN m |-> [k \in 0..(b - a - 1) |-> m[i][a + k]]]
\* x[a:b, :]
Rows(m, a, b) == [k \in 0..(b - a - 1) |-> m[a + k]]
\* x[:, a:b] = v
SetCols(m, a, b, v) ==
    [i \in DOMAIN m |-> [j \in DOMAIN m[i] |->
        IF a <= j /\ j < b THEN v[i][j - a] ELSE m[i][j]]]
\* an assignment that writes the first row of v to every row of the slice
SetRows_first_row(m, a, b, v) ==
    [i \in DOMAIN m |-> IF a <= i /\ i < b THEN v[0] ELSE m[i]]

\* x[a:b, :] = v
SetRows(m, a, b, v) ==
    [i \in DOMAIN m |-> IF a <= i /\ i < b THEN v[i - a] ELSE m[i]]

np_flip(m, axis) ==
    IF axis = 0
    THEN [i \in DOMAIN m |-> m[Shape0(m) - 1 - i]]
    ELSE [i \in DOMAIN m |-> [j \in DOMAIN m[i] |-> m[i][Shape1(m) - 1 - j]]]

np_transpose(m) ==
    [j \in 0..(Shape1(m) - 1) |-> [i \in 0..(Shape0(m) - 1) |-> m[i][j]]]

\* one counter-clockwise quarter turn of a grid
rot90_once(m) ==
    [i \in 0..(Shape1(m) - 1) |-> [j \in 0..(Shape0(m) - 1) |->
        m[j][Shape1(m) - 1 - i]]]

RECURSIVE np_rot90(_, _)
np_rot90(m, k) ==
    IF k % 4 = 0 THEN m ELSE rot90_once(np_rot90(m, (k % 4) - 1))

\* ------------------------------------------------------------ Cube.__init__
SolvedCube(side_length) ==
    Then([f \in 0..5 |-> [i \in 0..(side_length - 1) |->
             [j \in 0..(side_length - 1) |->
                 <<GREEN, ORANGE, BLUE, RED, WHITE, YELLOW>>[f + 1]]]],
         LAMBDA v : IF v = v THEN v ELSE v)

\* self._cube[f] = upd[f] for the faces f that upd names
SetFaces(c, upd) ==
    [f \in 0..5 |-> IF f \in DOMAIN upd THEN upd[f] ELSE c[f]]

\* a __rotate that always makes one quarter turn, whatever turns is
rotate_one_quarter(c, face, turns) ==
    SetFaces(c, face :> np_rot90(c[face], -1))

\* -------------------------------------------------------------- __rotate
rotate(c, face, turns) ==
    SetFaces(c, face :> np_rot90(c[face], -(turns % 4)))

\* ---------------------------------------------------------- __turn_right
turn_right_step(c, N, layer, width) ==
    LET src == <<FRONT, TOP, BACK, BOTTOM>>
        front_top_back_down == [k \in 0..3 |->
            IF src[k + 1] = BACK
            THEN np_flip(Cols(c[src[k + 1]], layer - width, layer), 1)
            ELSE Cols(c[src[k + 1]], N - layer, N - layer + width)]
        val(i) == IF i % 2 = 1 THEN np_flip(front_top_back_down[i], 0)
                  ELSE front_top_back_down[i]
    IN SetFaces(c,
          (TOP :> SetCols(c[TOP], N - layer, N - layer + width, val(0))) @@
          (BACK :> SetCols(c[BACK], layer - width, layer, np_flip(val(1), 1))) @@
          (BOTTOM :> SetCols(c[BOTTOM], N - layer, N - layer + width, val(2))) @@
          (FRONT :> SetCols(c[FRONT], N - layer, N - layer + width, val(3))))

turn_right(c, N, d, layer, width) ==
    LET dist == d % 4
        c1 == IF layer - width = 0 THEN rotate(c, RIGHT, dist) ELSE c
        c2 == IF layer = N THEN rotate(c1, LEFT, -dist) ELSE c1
    IN Repeated(LAMBDA x : turn_right_step(x, N, layer, width), c2, dist)

\* ----------------------------------------------------------- __turn_left
turn_left_step(c, N, layer, width) ==
    LET src == <<FRONT, TOP, BACK, BOTTOM>>
        front_top_back_down == [k \in 0..3 |->
            IF src[k + 1] = BACK
            THEN np_flip(Cols(c[src[k + 1]], N - layer, N - layer + width), 1)
            ELSE Cols(c[src[k + 1]], layer - width, layer)]
        val(i) == IF i % 2 = 0 THEN np_flip(front_top_back_down[i], 0)
                  ELSE front_top_back_down[i]
    IN SetFaces(c,
          (BOTTOM :> SetCols(c[BOTTOM], layer - width, layer, val(0))) @@
          (FRONT :> SetCols(c[FRONT], layer - width, layer, val(1))) @@
          (TOP :> SetCols(c[TOP], layer - width, layer, val(2))) @@
          (BACK :> SetCols(c[BACK], N - layer, N - layer + width, np_flip(val(3), 1))))

turn_left(c, N, d, layer, width) ==
    LET dist == d % 4
        c1 == IF layer - width = 0 THEN rotate(c, LEFT, dist) ELSE c
        c2 == IF layer = N THEN rotate(c1, RIGHT, -dist) ELSE c1
    IN Repeated(LAMBDA x : turn_left_step(x, N, layer, width), c2, dist)

\* ------------------------------------------------------------- __turn_up
turn_up_step(c, N, layer, width) ==
    LET src == <<FRONT, LEFT, BACK, RIGHT>>
        front_right_back_left == [k \in 0..3 |->
            Rows(c[src[k + 1]], layer - width, layer)]
    IN SetFaces(c,
          (LEFT :> SetRows(c[LEFT], layer - width, layer, front_right_back_left[0])) @@
          (BACK :> SetRows(c[BACK], layer - width, layer, front_right_back_left[1])) @@
          (RIGHT :> SetRows(c[RIGHT], layer - width, layer, front_right_back_left[2])) @@
          (FRONT :> SetRows(c[FRONT], layer - width, layer, front_right_back_left[3])))

\* a turn that rotates the TOP face whatever the layer and the width are
turn_up_cap_always(c, N, d, layer, width) ==
    LET dist == d % 4
        c1 == rotate(c, TOP, dist)
        c2 == IF layer = N THEN rotate(c1, BOTTOM, dist) ELSE c1
    IN Repeated(LAMBDA x : turn_up_step(x, N, layer, width), c2, dist)

turn_up(c, N, d, layer, width) ==
    LET dist == d % 4
        c1 == IF layer - width = 0 THEN rotate(c, TOP, dist) ELSE c
        c2 == IF layer = N THEN rotate(c1, BOTTOM, dist) ELSE c1
    IN Repeated(LAMBDA x : turn_up_step(x, N, layer, width), c2, dist)

\* ----------------------------------------------------------- __turn_down
turn_down_step(c, N, layer, width) ==
    LET src == <<FRONT, LEFT, BACK, RIGHT>>
        front_right_back_left == [k \in 0..3 |->
            Rows(c[src[k + 1]], N - layer, N - layer + width)]
    IN SetFaces(c,
          (RIGHT :> SetRows(c[RIGHT], N - layer, N - layer + width, front_right_back_left[0])) @@
          (FRONT :> SetRows(c[FRONT], N - layer, N - layer + width, front_right_back_left[1])) @@
          (LEFT :> SetRows(c[LEFT], N - layer, N - layer + width, front_right_back_left[2])) @@
          (BACK :> SetRows(c[BACK], N - layer, N - layer + width, front_right_back_left[3])))

turn_down(c, N, d, layer, width) ==
    LET dist == d % 4
        c1 == IF layer - width = 0 THEN rotate(c, BOTTOM, -dist) ELSE c
        c2 == IF layer = N THEN rotate(c1, TOP, -dist) ELSE c1
    IN Repeated(LAMBDA x : turn_down_step(x, N, layer, width), c2, dist)

\* ---------------------------------------------------------- __turn_front
turn_front_step(c, N, layer, width) ==
    LET src == <<TOP, RIGHT, BOTTOM, LEFT>>
        top_right_bottom_left == [k \in 0..3 |->
            np_transpose(
                IF src[k + 1] = RIGHT
                THEN np_flip(Cols(c[src[k + 1]], layer - width, layer), 1)
                ELSE IF src[k + 1] = LEFT
                THEN Cols(c[src[k + 1]], N - layer, N - layer + width)
                ELSE Rows(c[src[k + 1]], N - layer, N - layer + width))]
    IN SetFaces(c,
          (RIGHT :> SetCols(c[RIGHT], layer - width, layer,
                             np_flip(top_right_bottom_left[0], 1))) @@
          (BOTTOM :> SetRows(c[BOTTOM], N - layer, N - layer + width,
                              np_flip(top_right_bottom_left[1], 1))) @@
          (LEFT :> SetCols(c[LEFT], N - layer, N - layer + width,
                            top_right_bottom_left[2])) @@
          (TOP :> SetRows(c[TOP], N - layer, N - layer + width,
                           np_flip(top_right_bottom_left[3], 1))))

turn_front(c, N, d, layer, width) ==
    LET dist == d % 4
        c1 == IF layer - width = 0 THEN rotate(c, FRONT, dist) ELSE c
        c2 == IF layer = N THEN rotate(c1, BACK, -dist) ELSE c1
    IN Repeated(LAMBDA x : turn_front_step(x, N, layer, width), c2, dist)

\* ----------------------------------------------------------- __turn_back
turn_back_step(c, N, layer, width) ==
    LET src == <<TOP, RIGHT, BOTTOM, LEFT>>
        top_right_bottom_left == [k \in 0..3 |->
            np_transpose(
                IF src[k + 1] = LEFT
                THEN Cols(c[src[k + 1]], layer - width, layer)
                ELSE IF src[k + 1] = RIGHT
                THEN np_flip(Cols(c[src[k + 1]], N - layer, N - layer + width), 1)
                ELSE np_flip(Rows(c[src[k + 1]], layer - width, layer), 1))]
    IN SetFaces(c,
          (LEFT :> SetCols(c[LEFT], layer - width, layer, top_right_bottom_left[0])) @@
          (TOP :> SetRows(c[TOP], layer - width, layer, top_right_bottom_left[1])) @@
          (RIGHT :> SetCols(c[RIGHT], N - layer, N - layer + width,
                             np_flip(top_right_bottom_left[2], 1))) @@
          (BOTTOM :> SetRows(c[BOTTOM], layer - width, layer, top_right_bottom_left[3])))

\* a turn that rotates the BACK face the other way round
turn_back_face_reversed(c, N, d, layer, width) ==
    LET dist == d % 4
        c1 == IF layer - width = 0 THEN rotate(c, BACK, -dist) ELSE c
        c2 == IF layer = N THEN rotate(c1, FRONT, -dist) ELSE c1
    IN Repeated(LAMBDA x : turn_back_step(x, N, layer, width), c2, dist)

turn_back(c, N, d, layer, width) ==
    LET dist == d % 4
        c1 == IF layer - width = 0 THEN rotate(c, BACK, dist) ELSE c
        c2 == IF layer = N THEN rotate(c1, FRONT, -dist) ELSE c1
    IN Repeated(LAMBDA x : turn_back_step(x, N, layer, width), c2, dist)

\* ---------------------------------------------------------------- Cube.turn
\* the two assertions that open every turn primitive
InvalidTurn(N, layer, width) == layer - width < 0 \/ layer > N

turn(c, N, move, dist, layer, width) ==
    Then(CASE move = "R" -> turn_right(c, N, dist, layer, width)
           [] move = "L" -> turn_left(c, N, dist, layer, width)
           [] move = "U" -> turn_up(c, N, dist, layer, width)
           [] move = "D" -> turn_down(c, N, dist, layer, width)
           [] move = "F" -> turn_front(c, N, dist, layer, width)
           [] move = "B" -> turn_back(c, N, dist, layer, width),
         LAMBDA v : IF v = v THEN v ELSE v)

Letters == {"R", "L", "U", "D", "F", "B"}

\* ----------------------------------------------- flat-string serialisation
COLOR_TO_STRING ==
    (YELLOW :> "y") @@ (GREEN :> "g") @@ (RED :> "r") @@
    (BLUE :> "b") @@ (WHITE :> "w") @@ (ORANGE :> "o")

STRING_TO_COLOR ==
    [ch \in {COLOR_TO_STRING[k] : k \in DOMAIN COLOR_TO_STRING} |-> CHOOSE k \in DOMAIN COLOR_TO_STRING : COLOR_TO_STRING[k] = ch]

RECURSIVE str_cols(_, _, _, _, _)
str_cols(c, n, f, i, j) ==
    IF j >= n THEN <<>>
    ELSE <<COLOR_TO_STRING[c[f][i][j]]>> \o str_cols(c, n, f, i, j + 1)

RECURSIVE str_rows(_, _, _, _)
str_rows(c, n, f, i) ==
    IF i >= n THEN <<>>
    ELSE str_cols(c, n, f, i, 0) \o str_rows(c, n, f, i + 1)

RECURSIVE str_faces(_, _, _)
str_faces(c, n, k) ==
    LET faces == <<FRONT, LEFT, BACK, RIGHT, TOP, BOTTOM>>
    IN IF k > Len(faces) THEN <<>>
       ELSE str_rows(c, n, faces[k], 0) \o str_faces(c, n, k + 1)

\* a to_simple_string that writes the TOP and BOTTOM faces first
to_simple_string_top_first(c, n) ==
    str_rows(c, n, TOP, 0) \o str_rows(c, n, BOTTOM, 0) \o str_rows(c, n, FRONT, 0)
        \o str_rows(c, n, LEFT, 0) \o str_rows(c, n, BACK, 0) \o str_rows(c, n, RIGHT, 0)

to_simple_string(c, n) == str_faces(c, n, 1)

\* a from_simple_string that reads each face column by column
from_simple_string_column_major(cube_string) ==
    IF {cube_string[k] : k \in 1..Len(cube_string)} \ DOMAIN STRING_TO_COLOR # {}
    THEN [ok |-> FALSE, N |-> 0, cube |-> <<>>]
    ELSE IF ~\E n \in 0..Len(cube_string) : 6 * n * n = Len(cube_string)
    THEN [ok |-> FALSE, N |-> 0, cube |-> <<>>]
    ELSE LET n == CHOOSE n \in 0..Len(cube_string) : 6 * n * n = Len(cube_string)
         IN [ok |-> TRUE, N |-> n,
             cube |-> [f \in 0..5 |-> [i \in 0..(n - 1) |-> [j \in 0..(n - 1) |->
                 STRING_TO_COLOR[cube_string[f * n * n + j * n + i + 1]]]]]]

\* a record [ok, N, cube]; ok = FALSE stands for the AssertionError; N is
\* sqrt(len / 6) when that is an integer
from_simple_string(cube_string) ==
    IF {cube_string[k] : k \in 1..Len(cube_string)} \ DOMAIN STRING_TO_COLOR # {}
    THEN [ok |-> FALSE, N |-> 0, cube |-> <<>>]
    ELSE IF ~\E n \in 0..Len(cube_string) : 6 * n * n = Len(cube_string)
    THEN [ok |-> FALSE, N |-> 0, cube |-> <<>>]
    ELSE LET n == CHOOSE n \in 0..Len(cube_string) : 6 * n * n = Len(cube_string)
         IN [ok |-> TRUE, N |-> n,
             cube |-> [f \in 0..5 |-> [i \in 0..(n - 1) |-> [j \in 0..(n - 1) |->
                 STRING_TO_COLOR[cube_string[f * n * n + i * n + j + 1]]]]]]

\* ------------------------------------------------------------ move grammar
Digits == <<"0", "1", "2", "3", "4", "5", "6", "7", "8", "9">>
DigitChars == {Digits[k] : k \in 1..10}

RECURSIVE IntToStr(_)
IntToStr(n) ==
    IF n < 10 THEN <<Digits[n + 1]>>
    ELSE IntToStr(n \div 10) \o <<Digits[(n % 10) + 1]>>

\* str.replace("''", "")
RECURSIVE ReplaceTwoPrimes(_)
ReplaceTwoPrimes(s) ==
    IF Len(s) < 2 THEN s
    ELSE IF s[1] = "'" /\ s[2] = "'" THEN ReplaceTwoPrimes(SubSeq(s, 3, Len(s)))
    ELSE <<s[1]>> \o ReplaceTwoPrimes(Tail(s))

\* get_move(side, dist, layer, width, N): a record [moves, err] with the list
\* of tokens returned, or with the exception raised (and no list): the
\* InvalidTurnException of the last branch, or the ValueError of
\* ['R', 'U', 'F', 'L', 'D', 'B'].index(side) for a side that is none of them
get_move(side, d, layer, width, n) ==
    LET dist == d % 4
        layer_str == IF layer = 1 THEN <<>> ELSE IntToStr(layer)
        dist_str == IF dist = 2 THEN <<"2">> ELSE IF dist = 3 THEN <<"'">> ELSE <<>>
        opposite_dist_str ==
            IF dist = 2 THEN <<"2">> ELSE IF dist = 1 THEN <<"'">> ELSE <<>>
        returns(l) == [moves |-> l, err |-> "none"]
    IN IF dist = 0 THEN returns(<<>>)
       ELSE IF layer = width /\ width = n
       THEN IF side \notin {"R", "U", "F", "L", "D", "B"}
            THEN [moves |-> <<>>, err |-> "ValueError"]
            ELSE returns(<< <<CASE side \in {"R", "L"} -> "x"
                                [] side \in {"U", "D"} -> "y"
                                [] side \in {"F", "B"} -> "z">> \o
                            ReplaceTwoPrimes(dist_str \o
                                (IF side \in {"L", "B", "D"} THEN <<"'">> ELSE <<>>)) >>)
       ELSE IF width = 1 THEN returns(<< layer_str \o <<side>> \o dist_str >>)
       ELSE IF layer = width THEN returns(<< layer_str \o <<side, "w">> \o dist_str >>)
       ELSE IF width < layer
       THEN returns(<< layer_str \o <<side, "w">> \o dist_str,
                       (IF layer - width # 1 THEN IntToStr(layer - width) ELSE <<>>)
                           \o <<side>>
                           \o (IF layer - width # 1 THEN <<"w">> ELSE <<>>)
                           \o opposite_dist_str >>)
       ELSE [moves |-> <<>>, err |-> "InvalidTurnException"]

Upper(ch) ==
    CASE ch = "r" -> "R" [] ch = "f" -> "F" [] ch = "d" -> "D"
      [] ch = "u" -> "U" [] ch = "b" -> "B" [] ch = "l" -> "L"
      [] ch = "x" -> "X" [] ch = "y" -> "Y" [] ch = "z" -> "Z"
      [] OTHER -> ch

\* re.match(r'[1-9][0-9]*', m): the length of the leading number, 0 if none
RECURSIVE DigitRun(_, _)
DigitRun(m, k) ==
    IF k <= Len(m) /\ m[k] \in DigitChars THEN 1 + DigitRun(m, k + 1) ELSE 0
LeadingNumLen(m) ==
    IF Len(m) >= 1 /\ m[1] \in DigitChars /\ m[1] # "0" THEN DigitRun(m, 1) ELSE 0

RECURSIVE StrToInt(_)
StrToInt(s) ==
    IF Len(s) = 0 THEN 0
    ELSE 10 * StrToInt(SubSeq(s, 1, Len(s) - 1)) + ((CHOOSE k \in 1..10 : Digits[k] = s[Len(s)]) - 1)

\* a record [ok, letter, dist, layer, width]; ok = FALSE stands for the
\* exception raised when the token holds no move letter
get_letter_dist_layer_width(m, n) ==
    LET LetterChars == {"r", "f", "d", "u", "b", "l", "R", "F", "D", "U", "B", "L", "x", "y", "z"}
        LowerChars == {"r", "f", "d", "u", "b", "l", "x", "y", "z"}
        HasW == \E k \in 1..Len(m) : m[k] = "w"
    IN
    IF ~\E k \in 1..Len(m) : m[k] \in LetterChars
    THEN [ok |-> FALSE, letter |-> "", dist |-> 0, layer |-> 0, width |-> 0]
    ELSE
    LET letter0 == m[CHOOSE k \in 1..Len(m) :
                       m[k] \in LetterChars /\ \A q \in 1..(k - 1) : m[q] \notin LetterChars]
        dist0 == IF Len(m) # 1
                 THEN (IF m[Len(m)] = "2" THEN 2
                       ELSE IF m[Len(m)] = "'" THEN -1 ELSE 1)
                 ELSE 1
        nums == LeadingNumLen(m)
        layer0 == IF Len(m) # 1
                  THEN (IF nums > 0 THEN StrToInt(SubSeq(m, 1, nums))
                        ELSE IF HasW THEN 2 ELSE 1)
                  ELSE 1
        width0 == IF Len(m) # 1 /\ HasW THEN layer0 ELSE 1
        layer1 == IF letter0 \in LowerChars THEN 2 ELSE layer0
        width1 == IF letter0 \in LowerChars THEN 2 ELSE width0
    IN IF letter0 \in {"x", "y", "z"}
       THEN [ok |-> TRUE,
             letter |-> (CASE letter0 = "x" -> "R" [] letter0 = "y" -> "U"
                           [] letter0 = "z" -> "F"),
             dist |-> (IF m[Len(m)] = "'" THEN -1
                       ELSE IF m[Len(m)] = "2" THEN 2 ELSE 1),
             layer |-> n, width |-> n]
       ELSE [ok |-> TRUE, letter |-> letter0, dist |-> dist0,
             layer |-> layer1, width |-> width1]

\* ------------------------------------------- Cube.turn / Cube.parse on a
\* record [cube, moves, err]: the cube, the output move list and the
\* exception raised so far ("none" when none)
\* a turn that writes the move to the list before it checks the arguments
turnM_logs_first(st, n, move, dist, layer, width) ==
    IF st.err # "none" THEN st
    ELSE IF InvalidTurn(n, layer, width)
    THEN [st EXCEPT !.err = "AssertionError: Invalid turn",
                    !.moves = Append(st.moves, <<move>>)]
    ELSE [st EXCEPT !.cube = turn(st.cube, n, move, dist, layer, width),
                    !.moves = st.moves \o get_move(move, dist, layer, width, n).moves]

turnM(st, n, move, dist, layer, width) ==
    IF st.err # "none" THEN st
    ELSE IF InvalidTurn(n, layer, width)
    THEN [st EXCEPT !.err = "AssertionError: Invalid turn"]
    ELSE [st EXCEPT !.cube = turn(st.cube, n, move, dist, layer, width),
                    !.moves = st.moves \o get_move(move, dist, layer, width, n).moves]

\* one iteration of the loop of Cube.parse
parseM_step(st, n, m) ==
    IF st.err # "none" THEN st
    ELSE LET a == get_letter_dist_layer_width(m, n)
         IN IF ~a.ok THEN [st EXCEPT !.err = "AttributeError"]
            ELSE turnM(st, n, Upper(a.letter), a.dist, a.layer, a.width)

\* the loop over move_list[lo..hi], left to right (split in halves only to
\* keep the evaluation shallow)
RECURSIVE parseM_range(_, _, _, _, _)
parseM_range(st, n, move_list, lo, hi) ==
    IF lo > hi THEN st
    ELSE IF lo = hi THEN parseM_step(st, n, move_list[lo])
    ELSE Then(parseM_range(st, n, move_list, lo, (lo + hi) \div 2), LAMBDA left :
              parseM_range(left, n, move_list, ((lo + hi) \div 2) + 1, hi))

\* cube.parse(moves, output_movelist), moves already split on whitespace
parseM(st, n, move_list) == parseM_range(st, n, move_list, 1, Len(move_list))

\* cube.parse(moves) with no output list
parse(c, n, move_list) ==
    parseM([cube |-> c, moves |-> <<>>, err |-> "none"], n, move_list)

\* ------------------------------------------------------------ Cube.scramble
\* What the random module drew is an argument. For 2 <= N <= 7 it is `line`,
\* the scramble that random.choice took from scrambles.json, split into its
\* tokens; for N > 7 it is `draws`, the N*N*2 quadruples
\* <<move, dist, layer, width>>, which get_move writes as tokens. The tokens
\* are handed to self.parse; a cube of side 1 is left alone. When get_move
\* raises on a draw, the call ends there and nothing is parsed (random.randint
\* draws no width above layer, for which it would).
scramble(c, n, line, draws) ==
    LET RECURSIVE drawn(_, _)
        drawn(lo, hi) ==
            IF lo > hi THEN [moves |-> <<>>, err |-> "none"]
            ELSE IF lo = hi
            THEN get_move(draws[lo][1], draws[lo][2], draws[lo][3], draws[lo][4], n)
            ELSE Then(drawn(lo, (lo + hi) \div 2), LAMBDA left :
                 IF left.err # "none" THEN left
                 ELSE Then(drawn(((lo + hi) \div 2) + 1, hi), LAMBDA right :
                      IF right.err # "none" THEN right
                      ELSE [moves |-> left.moves \o right.moves, err |-> "none"]))
    IN IF 2 <= n /\ n <= 7 THEN parse(c, n, line)
       ELSE IF n > 7
       THEN Then(drawn(1, Len(draws)), LAMBDA moves :
                IF moves.err # "none" THEN [cube |-> c, moves |-> <<>>, err |-> moves.err]
                ELSE parse(c, n, moves.moves))
       ELSE [cube |-> c, moves |-> <<>>, err |-> "none"]


\* ------------------------------------------------------ move-list utilities
get_root_move(move) ==
    LET k == LeadingNumLen(move) + 1
    IN IF k + 1 <= Len(move) /\ move[k + 1] = "w"
       THEN SubSeq(move, 1, k + 1)
       ELSE SubSeq(move, 1, k)

get_dist(move) ==
    IF move[Len(move)] = "'" THEN 3 ELSE IF move[Len(move)] = "2" THEN 2 ELSE 1

get_final_move(move, dist) ==
    move \o << <<>>, <<>>, <<"2">>, <<"'">> >>[(dist % 4) + 1]

\* one iteration of the loop of clean_moves on the record
\* [new_moves, prev_root, prev_move_dist]; prev_root = None is the empty
\* sequence, which is no root
clean_moves_step(acc, move) ==
    LET root == get_root_move(move)
    IN IF root = acc.prev_root
       THEN [acc EXCEPT !.prev_move_dist = acc.prev_move_dist + get_dist(move)]
       ELSE [new_moves |->
                IF acc.prev_root # <<>> /\ acc.prev_move_dist % 4 # 0
                THEN acc.new_moves
                        \o <<get_final_move(acc.prev_root, acc.prev_move_dist)>>
                ELSE acc.new_moves,
             prev_root |-> root,
             prev_move_dist |-> get_dist(move)]

\* the loop over moves[lo..hi], left to right (split in halves only to keep
\* the evaluation shallow)
RECURSIVE clean_moves_range(_, _, _, _)
clean_moves_range(acc, moves, lo, hi) ==
    IF lo > hi THEN acc
    ELSE IF lo = hi THEN clean_moves_step(acc, moves[lo])
    ELSE LET left == clean_moves_range(acc, moves, lo, (lo + hi) \div 2)
         IN IF ~(left = left) THEN left
            ELSE clean_moves_range(left, moves, ((lo + hi) \div 2) + 1, hi)

clean_moves(moves) ==
    LET acc == clean_moves_range(
                   [new_moves |-> <<>>, prev_root |-> <<>>, prev_move_dist |-> 0],
                   moves, 1, Len(moves))
    IN IF acc.prev_root = <<>> THEN <<>>
       ELSE acc.new_moves \o <<get_final_move(acc.prev_root, acc.prev_move_dist)>>

\* a reverse_moves that inverts every token but keeps the order of the list
reverse_moves_in_order(moves) ==
    [k \in 1..Len(moves) |->
        get_final_move(get_root_move(moves[k]), -get_dist(moves[k]))]

reverse_moves(moves) ==
    [k \in 1..Len(moves) |->
        get_final_move(get_root_move(moves[Len(moves) + 1 - k]),
                       -get_dist(moves[Len(moves) + 1 - k]))]

\* ------------------------------------------------- Cube3x3 piece locator
\* {"c2f": d, "f2c": {v: k for k, v in d.items()}} for the Python dict literal
\* d = {k1: v1, k2: v2, ...}, given as the sequence of its (key, value) pairs:
\* a repeated key keeps the value written last
Piece(pairs) ==
    LET colors_to_faces ==
            [k \in {pairs[i][1] : i \in 1..Len(pairs)} |->
                pairs[CHOOSE i \in 1..Len(pairs) :
                          /\ pairs[i][1] = k
                          /\ \A j \in (i + 1)..Len(pairs) : pairs[j][1] # k][2]]
    IN [c2f |-> colors_to_faces,
        f2c |-> [v \in {colors_to_faces[k] : k \in DOMAIN colors_to_faces} |->
                    CHOOSE k \in DOMAIN colors_to_faces : colors_to_faces[k] = v]]

FACE_PAIRS == [y |-> <<TOP, BOTTOM>>, z |-> <<FRONT, BACK>>, x |-> <<LEFT, RIGHT>>]

InPair(f, pair) == f = pair[1] \/ f = pair[2]

get_center_at(c, a) == Piece((<< <<c[a][1][1], a>> >>))

\* the assertion "Illegal edge combination" fails
IllegalEdge(a, b) ==
    \E k \in DOMAIN FACE_PAIRS : InPair(a, FACE_PAIRS[k]) /\ InPair(b, FACE_PAIRS[k])

\* a locator that reads column 0 of both side faces
get_edge_between_one_column(c, a, b) ==
    IF a \notin {TOP, BOTTOM} /\ b \notin {TOP, BOTTOM}
    THEN Piece((<< <<c[a][1][0], a>>, <<c[b][1][0], b>> >>))
    ELSE LET top_face == IF a \in {TOP, BOTTOM} THEN a ELSE b
             side_face == IF top_face = a THEN b ELSE a
             top_face_indeces ==
                 << <<2, 1>>, <<1, 0>>, <<0, 1>>, <<1, 2>> >>[side_face + 1]
             side_face_indeces == IF top_face = TOP THEN <<0, 1>> ELSE <<2, 1>>
         IN Piece((<<
                <<c[top_face][top_face_indeces[1]][top_face_indeces[2]], top_face>>,
                <<c[side_face][side_face_indeces[1]][side_face_indeces[2]], side_face>> >>))

get_edge_between(c, a, b) ==
    IF a \notin {TOP, BOTTOM} /\ b \notin {TOP, BOTTOM}
    THEN Piece((<<
             <<c[a][1][IF (b - a) % 4 = 1 THEN 0 ELSE 2], a>>,
             <<c[b][1][IF (b - a) % 4 = 1 THEN 2 ELSE 0], b>> >>))
    ELSE LET top_face == IF a \in {TOP, BOTTOM} THEN a ELSE b
             side_face == IF top_face = a THEN b ELSE a
             top_face_indeces ==
                 << <<2, 1>>, <<1, 0>>, <<0, 1>>, <<1, 2>> >>[side_face + 1]
             side_face_indeces == IF top_face = TOP THEN <<0, 1>> ELSE <<2, 1>>
         IN Piece((<<
                <<c[top_face][top_face_indeces[1]][top_face_indeces[2]], top_face>>,
                <<c[side_face][side_face_indeces[1]][side_face_indeces[2]], side_face>> >>))

\* filter(lambda x: x in pair, [a, b, c]).__next__(); -1 stands for StopIteration
FirstInPair(faces, pair) ==
    IF \E i \in 1..Len(faces) : InPair(faces[i], pair)
    THEN faces[CHOOSE i \in 1..Len(faces) :
                   /\ InPair(faces[i], pair)
                   /\ \A j \in 1..(i - 1) : ~InPair(faces[j], pair)]
    ELSE -1

\* the exception get_corner_between raises, "none" when it returns a piece:
\* filter(...).__next__() raises StopIteration inside the loop when none of
\* the three faces is in a pair; the assertion after the loop tests the
\* truth of the three members of Face it found, and every member of an Enum
\* is true
IllegalCorner(a, b, c3) ==
    IF \E k \in DOMAIN FACE_PAIRS : FirstInPair(<<a, b, c3>>, FACE_PAIRS[k]) = -1
    THEN "StopIteration"
    ELSE IF \E k \in DOMAIN FACE_PAIRS : FirstInPair(<<a, b, c3>>, FACE_PAIRS[k]) \notin DOMAIN SolvedCube(1)
    THEN "AssertionError: Illegal corner combination"
    ELSE "none"

get_corner_between(c, a, b, c3) ==
    LET x_face == FirstInPair(<<a, b, c3>>, FACE_PAIRS.x)
        y_face == FirstInPair(<<a, b, c3>>, FACE_PAIRS.y)
        z_face == FirstInPair(<<a, b, c3>>, FACE_PAIRS.z)
        possible_y_corners ==
            << { <<2, 0>>, <<2, 2>> }, { <<0, 0>>, <<2, 0>> },
               { <<0, 0>>, <<0, 2>> }, { <<0, 2>>, <<2, 2>> } >>
        y_face_indeces ==
            CHOOSE p \in possible_y_corners[z_face + 1] \cap possible_y_corners[x_face + 1] : TRUE
        xz_face_y_value == IF y_face = TOP THEN 0 ELSE 2
        x_face_indeces == <<xz_face_y_value, IF (z_face - x_face) % 4 = 1 THEN 0 ELSE 2>>
        z_face_indeces == <<xz_face_y_value, IF (z_face - x_face) % 4 = 1 THEN 2 ELSE 0>>
    IN Piece((<<
           <<c[y_face][y_face_indeces[1]][y_face_indeces[2]], y_face>>,
           <<c[x_face][x_face_indeces[1]][x_face_indeces[2]], x_face>>,
           <<c[z_face][z_face_indeces[1]][z_face_indeces[2]], z_face>> >>))

\* --------------------------------------------------------- sexy_move_times
\* the tokens of the string sexy_move_times returns
sexy_move_times(n0, left_hand) ==
    LET RECURSIVE Repeat(_, _)
        Repeat(s, k) == IF k <= 0 THEN <<>> ELSE s \o Repeat(s, k - 1)
        n == n0 % 6
        use_backwards == n > 3
        move_left == << <<"L", "'">>, <<"U", "'">>, <<"L">>, <<"U">> >>
        move_left_backwards == << <<"U", "'">>, <<"L", "'">>, <<"U">>, <<"L">> >>
        move_right == << <<"R">>, <<"U">>, <<"R", "'">>, <<"U", "'">> >>
        move_right_backwards == << <<"U">>, <<"R">>, <<"U", "'">>, <<"R", "'">> >>
        moves == IF ~use_backwards
                 THEN (IF left_hand THEN move_left ELSE move_right)
                 ELSE (IF left_hand THEN move_left_backwards ELSE move_right_backwards)
    IN Repeat(moves, IF n < 6 - n THEN n ELSE 6 - n)

\* ------------------------------------------------------------ Cube.get_3x3
\* np.unique of the inner part of an outer row or column, or of the inner
\* square, of one face of a cube of side n, for the cell (i, j) of the 3x3
InnerColors(m, n, i, j) ==
    LET rows == IF i = 0 THEN {0} ELSE IF i = 2 THEN {n - 1} ELSE 1..(n - 2)
        cols == IF j = 0 THEN {0} ELSE IF j = 2 THEN {n - 1} ELSE 1..(n - 2)
    IN {m[r][k] : r \in rows, k \in cols}

\* a conversion that reads each edge span from the border across the diagonal
get_3x3_spans_transposed(c, n) ==
    LET corner(i, j) == i # 1 /\ j # 1
        far(i) == IF i = 0 THEN 0 ELSE n - 1
    IN IF \E f \in 0..5, i \in 0..2, j \in 0..2 :
                   ~corner(i, j) /\ Cardinality(InnerColors(c[f], n, j, i)) # 1
       THEN [ok |-> FALSE, cube |-> <<>>]
       ELSE [ok |-> TRUE,
             cube |-> [f \in 0..5 |-> [i \in 0..2 |-> [j \in 0..2 |->
                 IF corner(i, j) THEN c[f][far(i)][far(j)]
                 ELSE CHOOSE x \in InnerColors(c[f], n, j, i) : TRUE]]]]

\* a record [ok, cube]; ok = FALSE stands for the AssertionError of get_scalar
get_3x3(c, n) ==
    LET corner(i, j) == i # 1 /\ j # 1
        far(i) == IF i = 0 THEN 0 ELSE n - 1
    IN IF n = 2
       THEN [ok |-> TRUE,
             cube |-> [f \in 0..5 |-> [i \in 0..2 |-> [j \in 0..2 |->
                 IF corner(i, j) THEN c[f][far(i)][far(j)]
                 ELSE IF i = 1 /\ j = 1 THEN SolvedCube(3)[f][1][1]
                 ELSE WHITE]]]]
       ELSE IF \E f \in 0..5, i \in 0..2, j \in 0..2 :
                   ~corner(i, j) /\ Cardinality(InnerColors(c[f], n, i, j)) # 1
       THEN [ok |-> FALSE, cube |-> <<>>]
       ELSE [ok |-> TRUE,
             cube |-> [f \in 0..5 |-> [i \in 0..2 |-> [j \in 0..2 |->
                 IF corner(i, j) THEN c[f][far(i)][far(j)]
                 ELSE CHOOSE x \in InnerColors(c[f], n, i, j) : TRUE]]]]

\* ------------------------------------------------ convert_3x3_moves_to_2x2
\* the loop over moves[lo..hi]; for one move, what the loop body appends
RECURSIVE convert_2x2_range(_, _, _)
convert_2x2_range(moves, lo, hi) ==
    IF lo > hi THEN <<>>
    ELSE IF lo = hi
    THEN LET a == get_letter_dist_layer_width(moves[lo], 3)
             new_layer == IF a.layer = 2 THEN 1 ELSE 2
             new_width == IF a.layer = 2 THEN 1 ELSE IF a.width = 3 THEN 2 ELSE 1
         IN IF a.layer = 1 \/ (a.width = 1 /\ a.layer = 2) THEN <<moves[lo]>>
            ELSE get_move(a.letter, a.dist, new_layer, new_width, 2).moves
    ELSE convert_2x2_range(moves, lo, (lo + hi) \div 2)
             \o convert_2x2_range(moves, ((lo + hi) \div 2) + 1, hi)

convert_3x3_moves_to_2x2(moves) == convert_2x2_range(moves, 1, Len(moves))

\* ================================================================ solver3x3
\* Every stage takes and returns a record [cube, moves, err]: the Cube3x3 it
\* mutates, the move list (the pipeline's own list with the stage's moves
\* appended) and the exception raised ("none" when none).
SIDE_FACES == <<FRONT, LEFT, BACK, RIGHT>>
SIDE_FACE_PAIRS == << <<FRONT, LEFT>>, <<LEFT, BACK>>, <<BACK, RIGHT>>, <<RIGHT, FRONT>> >>

\* the number of iterations after which a while loop is cut off
MaxLoop == 12
LoopCut(st) == [st EXCEPT !.err = "loop cut off"]

\* tokens of the strings the stages hand to cube.parse
Tok(a) == <<a>>
TokP(a) == <<a, "'">>
Tok2(a) == <<a, "2">>

\* any(l) and l.index(True), for a list l of four booleans
AnyTrue(l) == \E k \in 1..Len(l) : l[k]
IndexTrue(l) == (CHOOSE k \in 1..Len(l) : l[k] /\ \A j \in 1..(k - 1) : ~l[j]) - 1

\* ----------------------------------------------------------- orient_centers
RECURSIVE orient_centers_loop(_, _)
orient_centers_loop(st, i) ==
    IF i >= 8 \/ st.err # "none" THEN st
    ELSE IF st.cube[BOTTOM][1][1] = WHITE THEN st
    ELSE Then(turnM(st, 3, IF i >= 4 THEN "F" ELSE "R", 1, 2, 1),
              LAMBDA nx : orient_centers_loop(nx, i + 1))

\* a stage that starts at its fifth attempt
orient_centers_from_fifth(st) == orient_centers_loop(st, 4)

orient_centers(st) == orient_centers_loop(st, 0)

\* -------------------------------------------------------- solve_white_cross
all_edges_white(c, face) ==
    \A idx \in { <<0, 1>>, <<1, 0>>, <<1, 2>>, <<2, 1>> } : c[face][idx[1]][idx[2]] = WHITE

\* while top_front_edge["f2c"][Face.TOP] == Color.WHITE: turn U
RECURSIVE cross_skip_white(_, _)
cross_skip_white(st, fuel) ==
    IF st.err # "none" THEN st
    ELSE IF get_edge_between(st.cube, FRONT, TOP).f2c[TOP] # WHITE THEN st
    ELSE IF fuel = 0 THEN LoopCut(st)
    ELSE Then(turnM(st, 3, "U", 1, 1, 1), LAMBDA nx : cross_skip_white(nx, fuel - 1))

\* the body of the first while loop: the inner while, then the if / elif
\* chain (flip the top-front edge; a white edge in the second layer, l2; a
\* white edge in the bottom layer, lb)
cross_top_body(st) ==
    Then(cross_skip_white(st, MaxLoop), LAMBDA s1 :
        IF s1.err # "none" THEN s1
        ELSE IF get_edge_between(s1.cube, FRONT, TOP).f2c[FRONT] = WHITE
        THEN parseM(s1, 3, <<Tok("F"), TokP("U"), Tok("R")>>)
        ELSE Then([k \in 1..4 |->
                      WHITE \in DOMAIN get_edge_between(s1.cube, SIDE_FACE_PAIRS[k][1],
                                                        SIDE_FACE_PAIRS[k][2]).c2f],
                  LAMBDA l2 :
            IF AnyTrue(l2)
            THEN Then(turnM(s1, 3, "U", -IndexTrue(l2), 2, 1), LAMBDA s2 :
                     IF get_edge_between(s2.cube, FRONT, LEFT).f2c[FRONT] = WHITE
                     THEN parseM(s2, 3, << <<"2", "U", "'">>, TokP("F") >>)
                     ELSE turnM(s2, 3, "F", 1, 1, 1))
            ELSE Then([k \in 1..4 |->
                          WHITE \in DOMAIN get_edge_between(s1.cube, BOTTOM,
                                                            SIDE_FACES[k]).c2f],
                      LAMBDA lb :
                IF AnyTrue(lb)
                THEN Then(turnM(s1, 3, "D", IndexTrue(lb), 1, 1), LAMBDA s2 :
                         IF get_edge_between(s2.cube, FRONT, BOTTOM).f2c[BOTTOM] = WHITE
                         THEN turnM(s2, 3, "F", 2, 1, 1)
                         ELSE parseM(s2, 3, <<TokP("F"), TokP("U"), Tok("R")>>))
                ELSE s1)))

RECURSIVE cross_top_loop(_, _)
cross_top_loop(st, fuel) ==
    IF st.err # "none" THEN st
    ELSE IF all_edges_white(st.cube, TOP) THEN st
    ELSE IF fuel = 0 THEN LoopCut(st)
    ELSE Then(cross_top_body(st), LAMBDA nx : cross_top_loop(nx, fuel - 1))

\* while top_front_edge["f2c"][Face.TOP] != Color.WHITE: turn U
RECURSIVE cross_find_white(_, _)
cross_find_white(st, fuel) ==
    IF st.err # "none" THEN st
    ELSE IF get_edge_between(st.cube, FRONT, TOP).f2c[TOP] = WHITE THEN st
    ELSE IF fuel = 0 THEN LoopCut(st)
    ELSE Then(turnM(st, 3, "U", 1, 1, 1), LAMBDA nx : cross_find_white(nx, fuel - 1))

\* while front_edge_color not in cube.get_center_at(Face.FRONT)["c2f"]: turn Dw
RECURSIVE cross_match_center(_, _, _)
cross_match_center(st, front_edge_color, fuel) ==
    IF st.err # "none" THEN st
    ELSE IF front_edge_color \in DOMAIN get_center_at(st.cube, FRONT).c2f THEN st
    ELSE IF fuel = 0 THEN LoopCut(st)
    ELSE Then(turnM(st, 3, "D", 1, 2, 2),
              LAMBDA nx : cross_match_center(nx, front_edge_color, fuel - 1))

\* a body that inserts the edge without turning the centres to it
cross_bottom_body_unmatched(st) ==
    Then(cross_find_white(st, MaxLoop), LAMBDA s1 :
        IF s1.err # "none" THEN s1
        ELSE turnM(s1, 3, "F", 2, 1, 1))

\* the body of the second while loop
cross_bottom_body(st) ==
    Then(cross_find_white(st, MaxLoop), LAMBDA s1 :
        IF s1.err # "none" THEN s1
        ELSE Then(cross_match_center(s1, get_edge_between(s1.cube, FRONT, TOP).f2c[FRONT],
                                     MaxLoop),
                  LAMBDA s2 : turnM(s2, 3, "F", 2, 1, 1)))

RECURSIVE cross_bottom_loop(_, _)
cross_bottom_loop(st, fuel) ==
    IF st.err # "none" THEN st
    ELSE IF all_edges_white(st.cube, BOTTOM) THEN st
    ELSE IF fuel = 0 THEN LoopCut(st)
    ELSE Then(cross_bottom_body(st), LAMBDA nx : cross_bottom_loop(nx, fuel - 1))

solve_white_cross(st) ==
    Then(cross_top_loop(st, MaxLoop), LAMBDA s1 : cross_bottom_loop(s1, MaxLoop))

\* ------------------------------------------------ solve_first_layer_corners
center_color(c, a) == get_center_at(c, a).f2c[a]

is_corner_solved(c, a, b) ==
    Then(get_corner_between(c, a, b, BOTTOM), LAMBDA corner :
        [permuted |->
             /\ center_color(c, a) \in DOMAIN corner.c2f
             /\ center_color(c, b) \in DOMAIN corner.c2f
             /\ WHITE \in DOMAIN corner.c2f,
         oriented |->
             /\ corner.f2c[BOTTOM] = WHITE
             /\ corner.f2c[a] = center_color(c, a)
             /\ corner.f2c[b] = center_color(c, b)])

\* all(is_corner_solved(cube, a, b).values())
corner_done(c, a, b) ==
    \A r \in {is_corner_solved(c, a, b)} : r.permuted /\ r.oriented

\* while all(is_corner_solved(cube, FRONT, RIGHT).values()): turn Dw
RECURSIVE corners_skip_solved(_, _)
corners_skip_solved(st, fuel) ==
    IF st.err # "none" THEN st
    ELSE IF ~corner_done(st.cube, FRONT, RIGHT) THEN st
    ELSE IF fuel = 0 THEN LoopCut(st)
    ELSE Then(turnM(st, 3, "D", 1, 2, 2), LAMBDA nx : corners_skip_solved(nx, fuel - 1))

\* [is_corner_matched(cube, (face, *t), (right_color, front_color, WHITE))
\*  for t in SIDE_FACE_PAIRS]
corners_matched(c, face, right_color, front_color) ==
    [k \in 1..4 |->
        \A corner \in {get_corner_between(c, face, SIDE_FACE_PAIRS[k][1],
                                           SIDE_FACE_PAIRS[k][2])} :
            \A color \in {right_color, front_color, WHITE} : color \in DOMAIN corner.c2f]

\* "if any(... Face.BOTTOM ...)": the target corner is elsewhere in the bottom layer
corners_extract(st, right_color, front_color) ==
    Then(corners_matched(st.cube, BOTTOM, right_color, front_color), LAMBDA l :
        IF ~AnyTrue(l) THEN st
        ELSE Then(turnM(st, 3, "D", IndexTrue(l) + 1, 1, 1), LAMBDA s1 :
             Then(parseM(s1, 3, sexy_move_times(1, FALSE)), LAMBDA s2 :
                 turnM(s2, 3, "D", -(IndexTrue(l) + 1), 1, 1))))

\* "if any(... Face.TOP ...)": the target corner is in the top layer
corners_insert(st, right_color, front_color) ==
    Then(corners_matched(st.cube, TOP, right_color, front_color), LAMBDA l :
        IF ~AnyTrue(l) THEN st
        ELSE Then(turnM(st, 3, "U", -(IndexTrue(l) + 1), 1, 1), LAMBDA s1 :
             Then(get_corner_between(s1.cube, FRONT, RIGHT, TOP).c2f, LAMBDA c2f :
                 IF WHITE \notin DOMAIN c2f THEN [s1 EXCEPT !.err = "KeyError"]
                 ELSE IF c2f[WHITE] = TOP THEN parseM(s1, 3, sexy_move_times(3, FALSE))
                 ELSE IF c2f[WHITE] = FRONT THEN parseM(s1, 3, sexy_move_times(5, FALSE))
                 ELSE IF c2f[WHITE] = RIGHT THEN parseM(s1, 3, sexy_move_times(1, FALSE))
                 ELSE [s1 EXCEPT !.err = "ImpossibleScrambleException"])))

\* the body of the while loop: the inner while; the corner in place but
\* twisted ("continue"); else extract from the bottom, then insert from the top
corners_body(st) ==
    Then(corners_skip_solved(st, MaxLoop), LAMBDA s1 :
        IF s1.err # "none" THEN s1
        ELSE IF is_corner_solved(s1.cube, FRONT, RIGHT).permuted
        THEN Then(get_corner_between(s1.cube, FRONT, RIGHT, BOTTOM).c2f, LAMBDA c2f :
                 IF c2f[WHITE] = RIGHT THEN parseM(s1, 3, sexy_move_times(2, FALSE))
                 ELSE IF c2f[WHITE] = FRONT THEN parseM(s1, 3, sexy_move_times(4, FALSE))
                 ELSE [s1 EXCEPT !.err = "ImpossibleScrambleException"])
        ELSE Then(center_color(s1.cube, RIGHT), LAMBDA right_color :
             Then(center_color(s1.cube, FRONT), LAMBDA front_color :
             Then(corners_extract(s1, right_color, front_color), LAMBDA s2 :
                 corners_insert(s2, right_color, front_color)))))

RECURSIVE corners_loop(_, _)
corners_loop(st, fuel) ==
    IF st.err # "none" THEN st
    \* all_white_corners_solved(cube)
    ELSE IF \A k \in 1..4 : corner_done(st.cube, SIDE_FACE_PAIRS[k][2], SIDE_FACE_PAIRS[k][1])
    THEN st
    ELSE IF fuel = 0 THEN LoopCut(st)
    ELSE Then(corners_body(st), LAMBDA nx : corners_loop(nx, fuel - 1))

solve_first_layer_corners(st) == corners_loop(st, MaxLoop)

\* ------------------------------------------------- solve_second_layer_edges
is_edge_solved(c, a, b) ==
    \A edge_f2c \in {get_edge_between(c, a, b).f2c} :
        edge_f2c[a] = center_color(c, a) /\ edge_f2c[b] = center_color(c, b)

is_edge_matched(c, faces) ==
    \A edge \in {get_edge_between(c, faces[1], faces[2])} :
        /\ center_color(c, RIGHT) \in DOMAIN edge.c2f
        /\ center_color(c, FRONT) \in DOMAIN edge.c2f

EDGE_INSERT ==
    sexy_move_times(1, FALSE) \o <<Tok("y")>> \o sexy_move_times(1, TRUE) \o <<TokP("y")>>

\* while is_edge_solved(cube, FRONT, RIGHT): turn Dw
RECURSIVE edges_skip_solved(_, _)
edges_skip_solved(st, fuel) ==
    IF st.err # "none" THEN st
    ELSE IF ~is_edge_solved(st.cube, FRONT, RIGHT) THEN st
    ELSE IF fuel = 0 THEN LoopCut(st)
    ELSE Then(turnM(st, 3, "D", 1, 2, 2), LAMBDA nx : edges_skip_solved(nx, fuel - 1))

\* the edge is elsewhere in the second layer
edges_extract(st) ==
    Then([k \in 1..4 |-> is_edge_matched(st.cube, SIDE_FACE_PAIRS[k])], LAMBDA l :
        IF ~AnyTrue(l) THEN st
        ELSE Then(turnM(st, 3, "D", IndexTrue(l) + 1, 2, 2), LAMBDA s1 :
             Then(parseM(s1, 3, EDGE_INSERT), LAMBDA s2 :
                 turnM(s2, 3, "D", -(IndexTrue(l) + 1), 2, 2))))

\* the edge is in the top layer
edges_insert(st) ==
    Then([k \in 1..4 |-> is_edge_matched(st.cube, <<SIDE_FACES[k], TOP>>)], LAMBDA l :
        IF ~AnyTrue(l) THEN st
        ELSE Then(turnM(st, 3, "U", -IndexTrue(l), 1, 1), LAMBDA s1 :
                 IF get_edge_between(s1.cube, TOP, FRONT).f2c[TOP]
                        = center_color(s1.cube, FRONT)
                 THEN parseM(s1, 3, <<Tok2("U"), Tok("y")>> \o sexy_move_times(1, TRUE)
                                        \o <<TokP("y")>> \o sexy_move_times(1, FALSE))
                 ELSE parseM(s1, 3, <<Tok("U")>> \o EDGE_INSERT)))

\* the body of the while loop
edges_body(st) ==
    Then(edges_skip_solved(st, MaxLoop), LAMBDA s1 :
        IF s1.err # "none" THEN s1
        \* the edge is in the right place but oriented wrong
        ELSE Then(IF is_edge_matched(s1.cube, <<FRONT, RIGHT>>)
                  THEN parseM(s1, 3, EDGE_INSERT \o <<Tok2("U")>> \o EDGE_INSERT)
                  ELSE s1, LAMBDA s2 :
             Then(edges_extract(s2), LAMBDA s3 : edges_insert(s3))))

RECURSIVE edges_loop(_, _)
edges_loop(st, fuel) ==
    IF st.err # "none" THEN st
    \* is_f2l_solved(cube)
    ELSE IF \A k \in 1..4 : is_edge_solved(st.cube, SIDE_FACE_PAIRS[k][1], SIDE_FACE_PAIRS[k][2])
    THEN st
    ELSE IF fuel = 0 THEN LoopCut(st)
    ELSE Then(edges_body(st), LAMBDA nx : edges_loop(nx, fuel - 1))

solve_second_layer_edges(st) == edges_loop(st, MaxLoop)

\* ----------------------------------------------------------- solve_oll_edges
\* the side faces whose top edge shows yellow on top
YellowTopEdges(c) ==
    {k \in 1..4 : get_edge_between(c, SIDE_FACES[k], TOP).f2c[TOP] = YELLOW}

RECURSIVE SumValues(_)
SumValues(S) ==
    IF S = {} THEN 0 ELSE LET k == CHOOSE k \in S : TRUE IN SIDE_FACES[k] + SumValues(S \ {k})

\* case 2, s = sum(face.value ...): the match on s, then F, the sexy move and
\* F' on layers = 1 + (s % 2 != 0)
oll_edges_two(st, s) ==
    Then(IF s = 1 THEN turnM(st, 3, "U", -1, 1, 1)
         ELSE IF s \in {2, 5} THEN turnM(st, 3, "U", 1, 1, 1)
         ELSE IF s = 3 /\ get_edge_between(st.cube, TOP, FRONT).f2c[TOP] # YELLOW
         THEN turnM(st, 3, "U", 2, 1, 1)
         ELSE st,
         LAMBDA s1 :
    Then(turnM(s1, 3, "F", 1, IF s % 2 # 0 THEN 2 ELSE 1, IF s % 2 # 0 THEN 2 ELSE 1),
         LAMBDA s2 :
    Then(parseM(s2, 3, sexy_move_times(1, FALSE)), LAMBDA s3 :
        turnM(s3, 3, "F", -1, IF s % 2 # 0 THEN 2 ELSE 1, IF s % 2 # 0 THEN 2 ELSE 1))))

\* case 0: no top edge shows yellow
oll_edges_none(st) ==
    Then(turnM(st, 3, "F", 1, 1, 1), LAMBDA s1 :
    Then(parseM(s1, 3, sexy_move_times(1, FALSE)), LAMBDA s2 :
    Then(turnM(s2, 3, "F", 1, 2, 1), LAMBDA s3 :
    Then(parseM(s3, 3, sexy_move_times(1, FALSE)), LAMBDA s4 :
        turnM(s4, 3, "F", -1, 2, 2)))))

\* a stage that takes a single yellow edge for the only parity
solve_oll_edges_one_only(st) ==
    Then(YellowTopEdges(st.cube), LAMBDA edges :
        IF Cardinality(edges) = 1 THEN [st EXCEPT !.err = "ImpossibleScrambleException"]
        ELSE IF Cardinality(edges) = 4 THEN st
        ELSE IF Cardinality(edges) = 2 THEN oll_edges_two(st, SumValues(edges))
        ELSE oll_edges_none(st))

solve_oll_edges(st) ==
    Then(YellowTopEdges(st.cube), LAMBDA edges :
        IF Cardinality(edges) \in {1, 3} THEN [st EXCEPT !.err = "ImpossibleScrambleException"]
        ELSE IF Cardinality(edges) = 4 THEN st
        ELSE IF Cardinality(edges) = 2 THEN oll_edges_two(st, SumValues(edges))
        ELSE oll_edges_none(st))

\* --------------------------------------------------------- solve_oll_corners
\* a loop body that leaves out the D turn to the next corner
oll_corners_unturned(st, sexy_moves) ==
    parseM(st, 3, sexy_move_times(sexy_moves, FALSE))

\* cube.parse(sexy_move_times(sexy_moves), moves); cube.turn("D", 1, ...)
oll_corners_turned(st, sexy_moves) ==
    Then(parseM(st, 3, sexy_move_times(sexy_moves, FALSE)), LAMBDA s1 :
        turnM(s1, 3, "D", 1, 1, 1))

\* the body of the while loop
oll_corners_body(st) ==
    Then(get_corner_between(st.cube, RIGHT, FRONT, BOTTOM).c2f, LAMBDA c2f :
        IF YELLOW \notin DOMAIN c2f THEN [st EXCEPT !.err = "KeyError"]
        ELSE IF c2f[YELLOW] = BOTTOM THEN oll_corners_turned(st, 0)
        ELSE IF c2f[YELLOW] = FRONT THEN oll_corners_turned(st, 4)
        ELSE IF c2f[YELLOW] = RIGHT THEN oll_corners_turned(st, 2)
        ELSE [st EXCEPT !.err = "ImpossibleScrambleException"])

RECURSIVE oll_corners_loop(_, _)
oll_corners_loop(st, fuel) ==
    IF st.err # "none" THEN st
    \* is_oll_solved(cube, Face.BOTTOM)
    ELSE IF Cardinality({get_corner_between(st.cube, SIDE_FACE_PAIRS[k][1],
                                            SIDE_FACE_PAIRS[k][2], BOTTOM).f2c[BOTTOM] :
                            k \in 1..4}) = 1
    THEN st
    ELSE IF fuel = 0 THEN LoopCut(st)
    ELSE Then(oll_corners_body(st), LAMBDA nx : oll_corners_loop(nx, fuel - 1))

solve_oll_corners(st) ==
    Then(parseM(st, 3, <<Tok2("x")>>), LAMBDA s1 :
    Then(oll_corners_loop(s1, MaxLoop), LAMBDA s2 :
        parseM(s2, 3, <<Tok2("x")>>)))

\* --------------------------------------------------------- solve_pll_corners
\* arr_diff(cube_matrix[face][0, (0, 2)])
arr_diff(c, face) ==
    IF c[face][0][2] - c[face][0][0] < 0
    THEN c[face][0][0] - c[face][0][2]
    ELSE c[face][0][2] - c[face][0][0]

solve_pll_corners(st) ==
    LET T_PERM ==
            << Tok("R"), Tok("U"), TokP("R"), TokP("U"), TokP("R"), Tok("F"), Tok2("R"),
               TokP("U"), TokP("R"), TokP("U"), Tok("R"), Tok("U"), TokP("R"), TokP("F") >>
    IN
    Then(arr_diff(st.cube, FRONT), LAMBDA edge_diff_1 :
    Then(arr_diff(st.cube, BACK), LAMBDA edge_diff_2 :
        IF edge_diff_1 = 0 /\ edge_diff_2 = 0 THEN st
        ELSE IF edge_diff_1 = 2 /\ edge_diff_2 = 2
        THEN parseM(st, 3, T_PERM \o <<Tok2("y")>> \o T_PERM)
        ELSE Then(IF edge_diff_1 % 4 = 2 THEN turnM(st, 3, "U", -1, 1, 1)
                  ELSE IF edge_diff_2 % 4 = 2 THEN turnM(st, 3, "U", 1, 1, 1)
                  ELSE IF arr_diff(st.cube, LEFT) = 2 THEN turnM(st, 3, "U", 2, 1, 1)
                  ELSE st,
                  LAMBDA s1 : parseM(s1, 3, T_PERM))))

\* ----------------------------------------------------------- solve_pll_edges
edge_swap ==
    sexy_move_times(1, FALSE) \o sexy_move_times(1, TRUE)
        \o sexy_move_times(-1, FALSE) \o sexy_move_times(-1, TRUE)

\* one pass of "for _ in range(2)": the match on sum(l)
pll_edges_pass(st) ==
    IF st.err # "none" THEN st
    ELSE Then([k \in 1..4 |-> st.cube[SIDE_FACES[k]][0][1] # st.cube[SIDE_FACES[k]][0][0]],
              LAMBDA l :
         Then(Cardinality({k \in 1..4 : l[k]}), LAMBDA count :
             IF count = 2 THEN [st EXCEPT !.err = "ImpossibleScrambleException"]
             ELSE IF count = 4 THEN parseM(st, 3, edge_swap)
             ELSE IF count = 3
             THEN Then(turnM(st, 3, "U", -((CHOOSE k \in 1..Len(l) : ~l[k] /\ \A j \in 1..(k - 1) : l[j]) - 1), 1, 1), LAMBDA s1 :
                      IF (s1.cube[LEFT][0][1] - s1.cube[LEFT][0][0]) % 4 = 2
                      THEN parseM(s1, 3, edge_swap)
                      ELSE parseM(s1, 3, edge_swap \o edge_swap))
             ELSE st))

\* np.unique(cube_matrix[face]).shape == (1,)
face_uniform(c, face) ==
    Cardinality({c[face][i][j] : i \in DOMAIN c[face], j \in DOMAIN c[face][0]}) = 1

\* while the FRONT face is not uniform: turn U
RECURSIVE pll_edges_align(_, _)
pll_edges_align(st, fuel) ==
    IF st.err # "none" THEN st
    ELSE IF face_uniform(st.cube, FRONT) THEN st
    ELSE IF fuel = 0 THEN LoopCut(st)
    ELSE Then(turnM(st, 3, "U", 1, 1, 1), LAMBDA nx : pll_edges_align(nx, fuel - 1))

\* a stage that makes one pass only
solve_pll_edges_one_pass(st) ==
    Then(pll_edges_pass(st), LAMBDA s1 :
        pll_edges_align(s1, MaxLoop))

solve_pll_edges(st) ==
    Then(pll_edges_pass(st), LAMBDA s1 :
    Then(pll_edges_pass(s1), LAMBDA s2 :
        pll_edges_align(s2, MaxLoop)))

\* ---------------------------------------------------------- the pipelines
\* stage number k of PIPELINE_3x3
PIPELINE_3x3(k, st) ==
    CASE k = 1 -> orient_centers(st)
      [] k = 2 -> solve_white_cross(st)
      [] k = 3 -> solve_first_layer_corners(st)
      [] k = 4 -> solve_second_layer_edges(st)
      [] k = 5 -> solve_oll_edges(st)
      [] k = 6 -> solve_oll_corners(st)
      [] k = 7 -> solve_pll_corners(st)
      [] k = 8 -> solve_pll_edges(st)

\* stage number k of PIPELINE_3x3 run on a 3x3 of class Cube, which has none
\* of get_center_at, get_edge_between and get_corner_between: a stage raises
\* AttributeError at its first call of one of them. The list `moves` of the
\* stage is lost with the exception, the turns made before it stay in the cube
\* (solve_oll_corners has parsed x2 by then, the others have turned nothing).
PIPELINE_3x3_on_Cube(k, st) ==
    CASE k = 1 -> orient_centers(st)
      [] k = 2 -> IF all_edges_white(st.cube, TOP) /\ all_edges_white(st.cube, BOTTOM)
                  THEN st
                  ELSE [st EXCEPT !.err = "AttributeError"]
      [] k \in {3, 4, 5} -> [st EXCEPT !.err = "AttributeError"]
      [] k = 6 -> [st EXCEPT !.cube = parse(st.cube, 3, << <<"x", "2">> >>).cube,
                             !.err = "AttributeError"]
      [] k = 7 -> solve_pll_corners(st)
      [] k = 8 -> solve_pll_edges(st)

\* stage number k of PIPELINE_2x2
PIPELINE_2x2(k, st) ==
    CASE k = 1 -> orient_centers(st)
      [] k = 2 -> solve_first_layer_corners(st)
      [] k = 3 -> solve_oll_corners(st)
      [] k = 4 -> solve_pll_corners(st)

\* ------------------------------------------- solverNxN.py: solve_centers
\* the state of a call is a record [cube, moves, err, ref, solved, log]: the
\* cube, the list `moves`, the exception raised so far, the 1x1 cube
\* reference_centers, the set solved_colors, and a log with one entry per
\* application of the commutator: the faces whose reference colour was in
\* solved_colors, and the cube before and after the eight turns

\* while cube_matrix[FRONT][y, x] == target_color: cube.turn('F', 1, 1, 1, moves)
RECURSIVE centers_free_front(_, _, _, _, _, _)
centers_free_front(s, n, target_color, y, x, fuel) ==
    IF s.err # "none" THEN s
    ELSE IF s.cube[FRONT][y][x] # target_color THEN s
    ELSE IF fuel = 0 THEN LoopCut(s)
    ELSE Then(turnM(s, n, "F", 1, 1, 1), LAMBDA nx :
             centers_free_front(nx, n, target_color, y, x, fuel - 1))

\* the body of `if cube_matrix[chosen_center][i, j] == target_color`
centers_move(s, n, target_color, chosen_center, i, j) ==
    LET is_back == chosen_center = BACK
        adjust_layer == IF is_back THEN "B" ELSE "U"
        slice_dist == IF is_back THEN 2 ELSE 1
        y == IF is_back THEN n - 1 - i ELSE i
        x == IF is_back THEN n - 1 - j ELSE j
        layer1 == x + 1
        layer2 == IF x + 1 = y + 1 THEN n + 1 - (y + 1) ELSE y + 1
        adjust_dist == IF x + 1 = y + 1 THEN 1 ELSE -1
    IN Then(centers_free_front(s, n, target_color, y, x, MaxLoop), LAMBDA s0 :
       Then(turnM(s0, n, "L", -slice_dist, layer1, 1), LAMBDA s1 :
       Then(turnM(s1, n, adjust_layer, adjust_dist, 1, 1), LAMBDA s2 :
       Then(turnM(s2, n, "L", -slice_dist, layer2, 1), LAMBDA s3 :
       Then(turnM(s3, n, adjust_layer, -adjust_dist, 1, 1), LAMBDA s4 :
       Then(turnM(s4, n, "L", slice_dist, layer1, 1), LAMBDA s5 :
       Then(turnM(s5, n, adjust_layer, adjust_dist, 1, 1), LAMBDA s6 :
       Then(turnM(s6, n, "L", slice_dist, layer2, 1), LAMBDA s7 :
       Then(turnM(s7, n, adjust_layer, -adjust_dist, 1, 1), LAMBDA s8 :
           IF s8.err # "none" THEN s8
           ELSE [s8 EXCEPT !.log = Append(@,
                    [faces |-> {f \in 0..5 : s8.ref[f][0][0] \in s8.solved},
                     before |-> s0.cube, after |-> s8.cube])])))))))))

\* for i in range(1, N-1): for j in range(1, N-1), from the cell numbered idx
\* on; each test reads the cube as the turns made so far have left it
RECURSIVE centers_scan(_, _, _, _, _)
centers_scan(s, n, target_color, chosen_center, idx) ==
    IF s.err # "none" \/ idx >= (n - 2) * (n - 2) THEN s
    ELSE Then(IF s.cube[chosen_center][1 + (idx \div (n - 2))][1 + (idx % (n - 2))]
                     = target_color
              THEN centers_move(s, n, target_color, chosen_center,
                                1 + (idx \div (n - 2)), 1 + (idx % (n - 2)))
              ELSE s,
              LAMBDA nx : centers_scan(nx, n, target_color, chosen_center, idx + 1))

\* for center_selector in range(5), from center_selector on
RECURSIVE centers_selectors(_, _, _, _)
centers_selectors(s, n, target_color, center_selector) ==
    IF s.err # "none" \/ center_selector >= 5 THEN s
    ELSE Then(IF center_selector < 4
              THEN [turnM(s, n, "B", 1, n - 1, n - 1)
                       EXCEPT !.ref = turn(s.ref, 1, "B", 1, 1, 1)]
              ELSE s, LAMBDA s1 :
         Then(IF s1.err # "none" THEN s1
              ELSE IF s1.ref[IF center_selector = 4 THEN BACK ELSE TOP][0][0] \in s1.solved
              THEN s1
              ELSE centers_scan(s1, n, target_color,
                                IF center_selector = 4 THEN BACK ELSE TOP, 0),
              LAMBDA s2 : centers_selectors(s2, n, target_color, center_selector + 1)))

\* for main_center_move in ['', 'y', 'y', 'y', 'x', 'x2'], from the k-th on
RECURSIVE centers_main(_, _, _)
centers_main(s, n, k) ==
    IF s.err # "none" \/ k > 6 THEN s
    ELSE Then(<< <<>>, <<Tok("y")>>, <<Tok("y")>>, <<Tok("y")>>,
                 <<Tok("x")>>, <<Tok2("x")>> >>[k], LAMBDA main_center_move :
         Then([parseM(s, n, main_center_move)
                  EXCEPT !.ref = parse(s.ref, 1, main_center_move).cube], LAMBDA s1 :
         Then(centers_selectors(s1, n, s1.ref[FRONT][0][0], 0), LAMBDA s2 :
             centers_main([s2 EXCEPT !.solved = @ \cup {s1.ref[FRONT][0][0]}], n, k + 1))))

\* a call that takes the centres of the solved cube for reference, whatever
\* the side of the cube
solve_centers_fixed_reference(c, n) ==
    centers_main([cube |-> c, moves |-> <<>>, err |-> "none", ref |-> SolvedCube(1),
                  solved |-> {}, log |-> <<>>], n, 1)

\* reference_centers = Cube(1), with the centres of the cube when N is odd
solve_centers(c, n) ==
    centers_main([cube |-> c, moves |-> <<>>, err |-> "none",
                  ref |-> IF n % 2 = 1
                          THEN [f \in 0..5 |-> [i \in {0} |-> [j \in {0} |->
                                    c[f][n \div 2][n \div 2]]]]
                          ELSE SolvedCube(1),
                  solved |-> {}, log |-> <<>>], n, 1)

\* ------------------------------------------- solverNxN.py: solve_edges
\* solve_edges(cube) for a cube of side n, from one place in its code to the
\* next place where it waits: each debug_print(cube, prompt) prints the cube
\* and sleeps. The state st of the call is a record with the cube, the list
\* `moves` and the exception raised so far, as solve_centers gives, and with
\* the place `at`: "call" (a record [cube, at] then: nothing has run), the
\* prompt of the debug_print the call waits in, or "returned". It adds the
\* 3x3 reference_edges (ref), the list fix_center_moves (fix), the locals
\* front_color, right_color, oriented_layers and unoriented_layers, the index
\* `round` of `for _ in range(2)` and the passes left to its while loop (fuel).
\* The operators of the LET are the nested functions and the loops of the
\* source, in its order.
solve_edges(st, n) ==
    LET c == st.cube
        FLIPPER_ALG ==
            << Tok("R"), Tok("U"), TokP("R"), Tok("F"), TokP("R"), TokP("F"), Tok("R") >>
        \* cube.parse(prompt, output_movelist=moves); ref.parse(prompt)
        parse_both(s, prompt) ==
            IF s.err # "none" THEN s
            ELSE Then(parseM(s, n, prompt), LAMBDA s1 :
                     [s1 EXCEPT !.ref = parse(s.ref, 3, prompt).cube])
        \* cube.turn('U', dist, N - 1, N - 2, moves); reference_edges.turn('U', dist, 2, 1)
        turn_flat_middle(s, dist) ==
            IF s.err # "none" THEN s
            ELSE Then(turnM(s, n, "U", dist, n - 1, n - 2), LAMBDA s1 :
                     [s1 EXCEPT !.ref = turn(s.ref, 3, "U", dist, 2, 1)])
        is_main_edge_solved(s) ==
            /\ Cardinality({s.cube[FRONT][i][n - 1] : i \in 1..(n - 2)}) = 1
            /\ Cardinality({s.cube[RIGHT][i][0] : i \in 1..(n - 2)}) = 1
            /\ s.cube[FRONT][1][n - 1] = s.ref[FRONT][1][2]
            /\ s.cube[RIGHT][1][0] = s.ref[RIGHT][1][0]
        any_piece_in_main_edge(s, colors) ==
            \E i \in 1..(n - 2) : {s.cube[FRONT][i][n - 1], s.cube[RIGHT][i][0]} = colors
        any_piece_in_top_edge(s, colors) ==
            \E i \in 1..(n - 2) : {s.cube[FRONT][0][i], s.cube[TOP][n - 1][i]} = colors
        any_piece_in_bottom_edge(s, colors) ==
            \E i \in 1..(n - 2) : {s.cube[FRONT][n - 1][i], s.cube[BOTTOM][n - 1][i]} = colors
        \* [i + 1 for i in range(1, N - 1) if FRONT[i, -1] == a and RIGHT[i, 0] == b]
        RECURSIVE pieces_in_main_edge(_, _, _, _)
        pieces_in_main_edge(s, a, b, i) ==
            IF i > n - 2 THEN <<>>
            ELSE (IF s.cube[FRONT][i][n - 1] = a /\ s.cube[RIGHT][i][0] = b
                  THEN <<i + 1>> ELSE <<>>) \o pieces_in_main_edge(s, a, b, i + 1)
        get_oriented_pieces_in_main_edge(s) ==
            pieces_in_main_edge(s, s.front_color, s.right_color, 1)
        get_unoriented_pieces_in_main_edge(s) ==
            pieces_in_main_edge(s, s.right_color, s.front_color, 1)
        is_front_edge_solved(s, border) ==
            Cardinality({<<s.cube[FRONT][0][i], s.cube[border][n - 1][i]>> : i \in 1..(n - 2)}) = 1
        \* for layer in layers[k..]: cube.turn('U', dist, layer, 1, moves)
        RECURSIVE turn_layers(_, _, _, _)
        turn_layers(s, layers, dist, k) ==
            IF k > Len(layers) THEN s
            ELSE Then(turnM(s, n, "U", dist, layers[k], 1), LAMBDA s1 :
                     turn_layers(s1, layers, dist, k + 1))
        \* front_color, right_color = right_color, front_color
        swapped(s0) ==
            Then(s0, LAMBDA s :
                [s EXCEPT !.front_color = s.right_color, !.right_color = s.front_color])
        fix_unoriented_pieces(s, target_layers) ==
            Then(turn_layers(s, target_layers, 1, 1), LAMBDA s1 :
            Then(parse_both(s1, FLIPPER_ALG), LAMBDA s2 :
                turn_layers(s2, target_layers, -1, 1)))
        \* the opening of an edge: the colours of the target edge, and the
        \* flipped pieces already in it
        target(s) ==
            IF s.err # "none" THEN s ELSE
            Then(get_edge_between(s.ref, FRONT, RIGHT), LAMBDA target_edge :
            Then([s EXCEPT !.front_color = target_edge.f2c[FRONT],
                           !.right_color = target_edge.f2c[RIGHT]], LAMBDA s1 :
            Then(get_unoriented_pieces_in_main_edge(s1), LAMBDA target_layers :
                IF target_layers # <<>>
                THEN swapped(fix_unoriented_pieces(s1, target_layers))
                ELSE s1)))
        \* for _ in range(4): U D, then a piece from the top or the bottom edge
        RECURSIVE candidate(_, _, _)
        candidate(s, colors, k) ==
            IF k = 0 \/ s.err # "none" THEN s
            ELSE Then(parse_both(s, <<Tok("U"), Tok("D")>>), LAMBDA s1 :
                     IF any_piece_in_top_edge(s1, colors)
                     THEN parse_both(s1, <<Tok("R"), TokP("U"), TokP("R")>>)
                     ELSE IF any_piece_in_bottom_edge(s1, colors)
                     THEN parse_both(s1, <<TokP("R"), Tok("D"), Tok("R")>>)
                     ELSE candidate(s1, colors, k - 1))
        \* for _ in range(3): turn the middle, fetch a candidate if the slot
        \* holds none (the first eight edges only), note the pieces in the slot
        RECURSIVE slots(_, _, _, _)
        slots(s, colors, fetch, k) ==
            IF k = 0 \/ s.err # "none" THEN s
            ELSE Then(turn_flat_middle(s, 1), LAMBDA s1 :
                 Then(IF fetch /\ ~any_piece_in_main_edge(s1, colors)
                      THEN candidate(s1, colors, 4) ELSE s1, LAMBDA s2 :
                 Then([s2 EXCEPT
                          !.oriented_layers =
                              Append(@, get_oriented_pieces_in_main_edge(s2)),
                          !.unoriented_layers =
                              Append(@, get_unoriented_pieces_in_main_edge(s2))], LAMBDA s3 :
                     slots(s3, colors, fetch, k - 1))))
        \* for slot in range(3): for layer in lists[slot]: turn U by slot + 1
        insert(s, lists) ==
            Then(turn_layers(s, lists[1], 1, 1), LAMBDA s1 :
            Then(turn_layers(s1, lists[2], 2, 1), LAMBDA s2 :
                turn_layers(s2, lists[3], 3, 1)))
        Times(l, x) == Len(SelectSeq(l, LAMBDA y : y = x))
        \* one pass of the while loop of the first eight edges
        pair(s, colors) ==
            Then([s EXCEPT !.oriented_layers = <<>>, !.unoriented_layers = <<>>], LAMBDA s0 :
            Then(slots(s0, colors, TRUE, 3), LAMBDA s1 :
            Then(turn_flat_middle(s1, 1), LAMBDA s2 :
            Then(insert(s2, s2.oriented_layers), LAMBDA s3 :
            Then(swapped(parse_both(s3, FLIPPER_ALG)), LAMBDA s4 :
            Then(insert(s4, s4.unoriented_layers), LAMBDA s5 :
                [s5 EXCEPT !.fix = [k \in 1..(n - 2) |->
                    @[k] - Times(s5.oriented_layers[1] \o s5.unoriented_layers[1], k + 1)
                         - 2 * Times(s5.oriented_layers[2] \o s5.unoriented_layers[2], k + 1)
                         - 3 * Times(s5.oriented_layers[3] \o s5.unoriented_layers[3], k + 1)]]))))))
        RECURSIVE pair_loop(_, _, _)
        pair_loop(s, colors, fuel) ==
            IF s.err # "none" THEN s
            ELSE IF is_main_edge_solved(s) THEN s
            ELSE IF fuel = 0 THEN LoopCut(s)
            ELSE Then(pair(s, colors), LAMBDA nx : pair_loop(nx, colors, fuel - 1))
        \* while is_front_edge_solved(cube, adjust_face): search_move
        RECURSIVE search(_, _, _, _)
        search(s, adjust_face, search_move, fuel) ==
            IF s.err # "none" THEN s
            ELSE IF ~is_front_edge_solved(s, adjust_face) THEN s
            ELSE IF fuel = 0 THEN LoopCut(s)
            ELSE Then(parse_both(s, <<Tok(search_move)>>), LAMBDA nx :
                     search(nx, adjust_face, search_move, fuel - 1))
        \* for i in range(8)
        RECURSIVE first_eight(_, _)
        first_eight(s, i) ==
            IF i = 8 \/ s.err # "none" THEN s
            ELSE Then(target(s), LAMBDA s1 :
                 Then(pair_loop(s1, {s1.front_color, s1.right_color}, MaxLoop), LAMBDA s2 :
                 Then(search(s2, IF i < 4 THEN TOP ELSE BOTTOM,
                             IF i < 4 THEN "U" ELSE "D", MaxLoop), LAMBDA s3 :
                 Then(parse_both(s3, IF i < 4 THEN <<Tok("R"), TokP("U"), TokP("R")>>
                                     ELSE <<TokP("R"), Tok("D"), Tok("R")>>), LAMBDA s4 :
                     first_eight(s4, i + 1)))))
        \* for layer in range(N - 2): cube.turn('U', fix_center_moves[layer], layer + 2, 1, moves)
        RECURSIVE fix_centers(_, _)
        fix_centers(s, k) ==
            IF k > n - 2 \/ s.err # "none" THEN s
            ELSE Then(turnM(s, n, "U", s.fix[k], k + 1, 1), LAMBDA s1 : fix_centers(s1, k + 1))
        \* for slot in range(3): the pieces of lists[slot] are turned out of the
        \* way, the middle is turned by slot + 1 and flipped, and all is turned back
        RECURSIVE flip_slots(_, _, _)
        flip_slots(s, lists, slot) ==
            IF slot = 3 \/ s.err # "none" THEN s
            ELSE Then(turn_layers(s, lists[slot + 1], -slot - 1, 1), LAMBDA s1 :
                 Then(turn_flat_middle(s1, slot + 1), LAMBDA s2 :
                 Then(parse_both(s2, FLIPPER_ALG), LAMBDA s3 :
                 Then(turn_flat_middle(s3, -slot - 1), LAMBDA s4 :
                 Then(turn_layers(s4, lists[slot + 1], slot + 1, 1), LAMBDA s5 :
                     flip_slots(s5, lists, slot + 1))))))
        \* for _ in range(3): turn the middle, flip (and turn the middle again)
        RECURSIVE flip_all(_, _, _)
        flip_all(s, again, k) ==
            IF k = 0 \/ s.err # "none" THEN s
            ELSE Then(turn_flat_middle(s, 1), LAMBDA s1 :
                 Then(parse_both(s1, FLIPPER_ALG), LAMBDA s2 :
                 Then(IF again THEN turn_flat_middle(s2, 1) ELSE s2, LAMBDA s3 :
                     flip_all(s3, again, k - 1))))
        Deep(l) == SelectSeq(l, LAMBDA x : x > n \div 2)
        Shallow(l) == SelectSeq(l, LAMBDA x : x <= n \div 2)
        Mirror(l) == [k \in 1..Len(l) |-> n + 1 - l[k]]
        Each(lists, F(_)) == <<F(lists[1]), F(lists[2]), F(lists[3])>>
        \* the while loop of the last four edges: the pieces of the three slots
        \* are noted
        noted(s) ==
            Then([s EXCEPT !.oriented_layers = <<>>, !.unoriented_layers = <<>>], LAMBDA s0 :
            Then(slots(s0, {}, FALSE, 3), LAMBDA s1 :
                turn_flat_middle(s1, 1)))
        \* up to "topside done"
        top_side(s) ==
            Then(flip_slots(s, Each(s.unoriented_layers, LAMBDA l : Mirror(Deep(l))), 0), LAMBDA s1 :
            Then(flip_all(s1, FALSE, 3), LAMBDA s2 :
            Then(turn_flat_middle(s2, 1), LAMBDA s3 :
                flip_slots(s3, Each(s3.oriented_layers, LAMBDA l : Shallow(l)), 0))))
        \* the same for the bottom
        bottom_side(s) ==
            Then(flip_slots(s, Each(s.oriented_layers, LAMBDA l : Deep(l)), 0), LAMBDA s1 :
            Then(flip_all(s1, TRUE, 3), LAMBDA s2 :
                flip_slots(s2, Each(s2.unoriented_layers, LAMBDA l : Mirror(Shallow(l))), 0)))
        \* while not is_main_edge_solved, up to debug_print(cube, "starting");
        \* after the loop of the first round, the opening of the second
        RECURSIVE last_loop(_)
        last_loop(s) ==
            IF s.err # "none" THEN s
            ELSE IF is_main_edge_solved(s)
            THEN IF s.round = 1 THEN [s EXCEPT !.at = "returned"]
                 ELSE Then(target(s), LAMBDA t :
                          last_loop([t EXCEPT !.round = 1, !.fuel = MaxLoop]))
            ELSE IF s.fuel = 0 THEN LoopCut(s)
            ELSE Then(noted(s), LAMBDA nx :
                     [nx EXCEPT !.at = "starting", !.fuel = s.fuel - 1])
        reference_edges ==
            [f \in 0..5 |-> [i \in 0..2 |-> [j \in 0..2 |->
                IF n % 2 = 1 /\ (i + j) % 2 = 1
                THEN c[f][<<0, n \div 2, n - 1>>[i + 1]][<<0, n \div 2, n - 1>>[j + 1]]
                ELSE SolvedCube(3)[f][i][j]]]]
    IN CASE st.at = "call" ->
              Then(first_eight([cube |-> c, moves |-> <<>>, err |-> "none",
                                ref |-> reference_edges, fix |-> [k \in 1..(n - 2) |-> 0],
                                front_color |-> GREEN, right_color |-> GREEN,
                                oriented_layers |-> <<>>, unoriented_layers |-> <<>>,
                                at |-> "call", round |-> 0, fuel |-> MaxLoop], 0), LAMBDA s1 :
              Then(fix_centers(s1, 1), LAMBDA s2 :
              Then(target(s2), LAMBDA s3 : last_loop(s3))))
         [] st.at = "starting" ->
              Then(top_side(st), LAMBDA nx : [nx EXCEPT !.at = "topside done"])
         [] st.at = "topside done" ->
              Then(bottom_side(st), LAMBDA nx : [nx EXCEPT !.at = "thing"])
         [] st.at = "thing" -> last_loop(st)

\* ----------------------------------- solver2x2.py: orient_top_until_solve
\* while the FRONT face is not uniform: turn U; the list returned is
\* clean_moves(moves)
RECURSIVE orient_top_until_solve(_, _, _)
orient_top_until_solve(st, n, fuel) ==
    IF st.err # "none" THEN st
    ELSE IF face_uniform(st.cube, FRONT) THEN [st EXCEPT !.moves = clean_moves(st.moves)]
    ELSE IF fuel = 0 THEN LoopCut(st)
    ELSE Then(turnM(st, n, "U", 1, 1, 1), LAMBDA nx : orient_top_until_solve(nx, n, fuel - 1))

\* ================================================================== state
\* N, cube    : the cube object (self.N, self._cube)
\* cls        : the class of that object, "Cube" or "Cube3x3"
\* start      : the cube as it was constructed
\* prev, last : the cube before the latest turn and that turn's arguments
\* nturns     : the number of turns applied so far
\* movelist   : the move tokens handed to parse so far
\* pc         : where a call of solve stands ("idle" when none was made)
\* mutate     : the mutate_original argument of that call
\* work       : the Cube3x3 the pipeline works on, with the pipeline's moves
\* result     : the move list solve returned
\* arrays     : the numpy arrays that the cubes followed in SpecStore hold,
\*              each a grid, numbered from 1 in the order they were made
\* lists      : the list self._cube of the caller's cube and of the cube that
\*              get_3x3 returned: the numbers of its six arrays, face by face
\*              (the other specifications hold a cube as the value of cube)
VARIABLES N, cls, cube, start, prev, last, nturns, movelist, pc, mutate, work, result, call,
          arrays, lists

vars == <<N, cls, cube, start, prev, last, nturns, movelist, pc, mutate, work, result, call,
          arrays, lists>>

\* no call of solve has been made, and no call of a function that returns a
\* value (call holds the latest such call: its name, its arguments, the
\* exception it raised and the value it returned)
NoSolve ==
    /\ pc = "idle"
    /\ mutate = FALSE
    /\ work = [cube |-> <<>>, moves |-> <<>>, err |-> "none"]
    /\ result = <<>>
    /\ call = [op |-> "", args |-> <<>>, err |-> "none", out |-> <<>>]

NoTurn == [move |-> "", dist |-> 0, layer |-> 0, width |-> 0]

\* ------------------------------------------------- the cube engine (Spec)
Init ==
    /\ N \in 1..MaxN
    /\ cls = "Cube"
    /\ cube = SolvedCube(N)
    /\ start = cube
    /\ prev = cube
    /\ last = NoTurn
    /\ nturns = 0
    /\ movelist = <<>>
    /\ NoSolve
    /\ arrays = <<>>
    /\ lists = [caller |-> <<>>, reduced |-> <<>>]

\* cube.turn(move, dist, layer, width)
Turn(move, dist, layer, width) ==
    /\ nturns < MaxTurns
    /\ ~InvalidTurn(N, layer, width)
    /\ cube' = turn(cube, N, move, dist, layer, width)
    /\ prev' = cube
    /\ last' = [move |-> move, dist |-> dist, layer |-> layer, width |-> width]
    /\ nturns' = nturns + 1
    /\ UNCHANGED <<arrays, lists, N, cls, start, movelist, pc, mutate, work, result, call>>

Next ==
    \E move \in Letters, dist \in 1..3, layer \in 1..N, width \in 1..N :
        Turn(move, dist, layer, width)

Spec == Init /\ [][Next]_vars

\* ------------------------------------------ the move lists (SpecMoves)
MovesN == 3
MaxLen == 4

InitMoves ==
    /\ N = MovesN
    /\ cls = "Cube"
    /\ cube \in {SolvedCube(N),
                 parse(SolvedCube(MovesN), MovesN,
                       << <<"R">>, <<"U", "'">>, <<"2", "F">>, <<"D", "w", "2">> >>).cube}
    /\ start = cube
    /\ prev = cube
    /\ last = NoTurn
    /\ nturns = 0
    /\ movelist = <<>>
    /\ NoSolve
    /\ arrays = <<>>
    /\ lists = [caller |-> <<>>, reduced |-> <<>>]

\* cube.parse(token)
ParseToken(tok) ==
    /\ Len(movelist) < MaxLen
    /\ movelist' = Append(movelist, tok)
    /\ cube' = parse(cube, N, <<tok>>).cube
    /\ prev' = cube
    /\ nturns' = nturns + 1
    /\ UNCHANGED <<arrays, lists, N, cls, start, last, pc, mutate, work, result, call>>

\* the tokens are well formed and legal on a cube of side MovesN
NextMoves ==
    \E tok \in { <<"R">>, <<"R", "'">>, <<"R", "2">>, <<"U">>, <<"U", "'">>,
                 <<"R", "w">>, <<"3", "F">>, <<"x", "2">>, <<"l", "'">> } :
        ParseToken(tok)

SpecMoves == InitMoves /\ [][NextMoves]_vars

\* -------------------------------------------- solve(cube, mutate_original)
\* (SpecSolve)
MaxScramble == 3

\* the turns that scramble the cube before solve is called, legal for both sides
ScrambleTurns ==
    { <<"L", 2, 1, 1>>, <<"F", 2, 1, 1>>, <<"U", 1, 1, 1>>,
      <<"R", 3, 1, 1>>, <<"R", 1, 2, 1>>, <<"D", 1, 2, 2>> }

\* the number of stages of the pipeline solve runs for a cube of side n
NumStages(n) == IF n = 2 THEN 4 ELSE 8

InitSolve ==
    /\ N \in {2, 3}
    /\ cls \in (IF N = 3 THEN {"Cube", "Cube3x3"} ELSE {"Cube"})
    /\ cube = SolvedCube(N)
    /\ start = cube
    /\ prev = cube
    /\ last = NoTurn
    /\ nturns = 0
    /\ movelist = <<>>
    /\ NoSolve
    /\ arrays = <<>>
    /\ lists = [caller |-> <<>>, reduced |-> <<>>]

\* a turn of the scramble
Scramble(t) ==
    /\ pc = "idle"
    /\ nturns < MaxScramble
    /\ cube' = turn(cube, N, t[1], t[2], t[3], t[4])
    /\ prev' = cube
    /\ nturns' = nturns + 1
    /\ UNCHANGED <<arrays, lists, N, cls, start, last, movelist, pc, mutate, work, result, call>>

\* solve is called: the deep copy, the 3x3 stand-in of a 2x2, and the entry
\* of SolvePipeline.__call__ with its empty move list
Call(mutate_original) ==
    /\ pc = "idle"
    /\ mutate' = mutate_original
    /\ start' = cube
    /\ work' = [cube |-> IF N = 2 THEN get_3x3(cube, N).cube ELSE cube,
                moves |-> <<>>, err |-> "none"]
    /\ pc' = "stage"
    /\ nturns' = 0
    /\ UNCHANGED <<arrays, lists, N, cls, cube, prev, last, movelist, result, call>>

\* one iteration of the loop of SolvePipeline.__call__: moves += func(cube);
\* nturns counts the stages run. The pipeline works on the 3x3 stand-in of a
\* 2x2 (a Cube3x3 that get_3x3 built) or on a 3x3 of the caller's class. When
\* the stage raises, `moves +=` does not run: work.moves stays the list of the
\* stages before it, and work.cube is the cube as the stage left it.
Stage ==
    /\ pc = "stage"
    /\ nturns < NumStages(N)
    /\ \E nx \in {IF N = 2 THEN PIPELINE_2x2(nturns + 1, work)
                   ELSE IF cls = "Cube3x3" THEN PIPELINE_3x3(nturns + 1, work)
                   ELSE PIPELINE_3x3_on_Cube(nturns + 1, work)} :
          /\ work' = IF nx.err # "none" THEN [nx EXCEPT !.moves = work.moves] ELSE nx
          /\ pc' = IF nx.err # "none" THEN "raised" ELSE "stage"
          /\ cube' = IF N = 3 /\ mutate THEN nx.cube ELSE cube
    /\ nturns' = nturns + 1
    /\ UNCHANGED <<arrays, lists, N, cls, start, prev, last, movelist, mutate, result, call>>

\* the pipeline returns clean_moves(moves) and solve returns
Return ==
    /\ pc = "stage"
    /\ nturns = NumStages(N)
    /\ \E moves \in {IF N = 2
                      THEN convert_3x3_moves_to_2x2(clean_moves(work.moves))
                      ELSE clean_moves(work.moves)} :
          /\ result' = moves
          /\ cube' = IF N = 2 /\ mutate THEN parse(cube, N, moves).cube ELSE cube
    /\ pc' = "done"
    /\ UNCHANGED <<arrays, lists, N, cls, start, prev, last, nturns, movelist, mutate, work, call>>

NextSolve ==
    \/ \E t \in ScrambleTurns : Scramble(t)
    \/ \E mutate_original \in BOOLEAN : Call(mutate_original)
    \/ Stage
    \/ Return

SpecSolve == InitSolve /\ [][NextSolve]_vars

\* ------------------------------------------- solve_centers (SpecCenters)
\* a cube of side 4 or 5 is scrambled by turns of outer layers, of inner
\* slices and of several layers at once, and solve_centers is called on it
InitCenters ==
    /\ N \in {4, 5}
    /\ cls = "Cube"
    /\ cube = SolvedCube(N)
    /\ start = cube
    /\ prev = cube
    /\ last = NoTurn
    /\ nturns = 0
    /\ movelist = <<>>
    /\ NoSolve
    /\ arrays = <<>>
    /\ lists = [caller |-> <<>>, reduced |-> <<>>]

\* moves = solve_centers(cube): the call works on the cube it is handed
CentersCall ==
    /\ pc = "idle"
    /\ \E r \in {solve_centers(cube, N)} :
          /\ cube' = r.cube
          /\ work' = [cube |-> r.cube, moves |-> r.moves, err |-> r.err]
          /\ result' = r.moves
          /\ call' = [op |-> "solve_centers", args |-> <<cube>>, err |-> r.err, out |-> r.log]
          /\ pc' = IF r.err = "none" THEN "done" ELSE "raised"
    /\ start' = cube
    /\ prev' = cube
    /\ UNCHANGED <<arrays, lists, N, cls, last, nturns, movelist, mutate>>

NextCenters ==
    \/ \E t \in { <<"R", 1, 2, 1>>, <<"U", 3, 3, 1>>, <<"F", 2, 2, 2>>,
                    <<"D", 1, 1, 1>>, <<"L", 1, 3, 2>> } : Scramble(t)
    \/ CentersCall

SpecCenters == InitCenters /\ [][NextCenters]_vars

\* ----------- scramble, orient_top_until_solve, solve_edges (SpecTools)
\* Calls of the functions that turn a cube outside solve: Cube.scramble,
\* orient_top_until_solve, and solve_edges alone or after solve_centers, on a
\* cube of side 1, 2, 4, 5 or 8 that is solved or one or two calls away from
\* solved. call holds the latest call; a call whose loop was cut off has not
\* returned, and nothing follows it. solve_edges is a step to each of its
\* waits and one to its return.

\* the largest side solve_centers and solve_edges are called on
EdgesN == 5

\* the number of turning calls before a solver call
MaxTools == 2

InitTools ==
    /\ N \in {1, 2, 4, 5, 8}
    /\ cls = "Cube"
    /\ cube = SolvedCube(N)
    /\ start = cube
    /\ prev = cube
    /\ last = NoTurn
    /\ nturns = 0
    /\ movelist = <<>>
    /\ NoSolve
    /\ arrays = <<>>
    /\ lists = [caller |-> <<>>, reduced |-> <<>>]

\* cube.scramble()
ScrambleCall(line, draws) ==
    /\ pc = "idle"
    /\ nturns < MaxTools
    /\ \E r \in {scramble(cube, N, line, draws)} :
          /\ cube' = r.cube
          /\ call' = [op |-> "scramble", args |-> <<cube, line, draws>>,
                      err |-> r.err, out |-> <<>>]
    /\ prev' = cube
    /\ nturns' = nturns + 1
    /\ UNCHANGED <<arrays, lists, N, cls, start, last, movelist, pc, mutate, work, result>>

\* moves = orient_top_until_solve(cube)
OrientTopCall ==
    /\ pc = "idle"
    /\ nturns < MaxTools
    /\ \E r \in {orient_top_until_solve([cube |-> cube, moves |-> <<>>, err |-> "none"],
                                         N, MaxLoop)} :
          /\ cube' = r.cube
          /\ result' = IF r.err = "none" THEN r.moves ELSE result
          /\ call' = [op |-> "orient_top_until_solve", args |-> <<cube>>,
                      err |-> r.err, out |-> IF r.err = "none" THEN r.moves ELSE <<>>]
          /\ pc' = IF r.err = "none" THEN pc ELSE "raised"
    /\ prev' = cube
    /\ nturns' = nturns + 1
    /\ UNCHANGED <<arrays, lists, N, cls, start, last, movelist, mutate, work>>

\* moves = solve_edges(cube), on the cube as it is or as solve_centers left
\* it: the call runs to its first debug_print, where it waits with the cube
\* printed (pc "sleeping", work the state of the call), or to its return
EdgesCall ==
    /\ pc \in {"idle", "done"}
    /\ call.op # "solve_edges"
    /\ N >= 4 /\ N <= EdgesN
    /\ \E r \in {solve_edges([cube |-> cube, at |-> "call"], N)} :
          /\ cube' = r.cube
          /\ work' = r
          /\ result' = IF r.err = "none" /\ r.at = "returned" THEN r.moves ELSE result
          /\ call' = [op |-> "solve_edges", args |-> <<cube>>, err |-> r.err, out |-> <<>>]
          /\ pc' = IF r.err # "none" THEN "raised"
                   ELSE IF r.at = "returned" THEN "done" ELSE "sleeping"
    /\ prev' = cube
    /\ UNCHANGED <<arrays, lists, N, cls, start, last, nturns, movelist, mutate>>

\* time.sleep(0.5) of debug_print is over: solve_edges goes on to its next
\* debug_print or to its return
EdgesAfterPrint ==
    /\ pc = "sleeping"
    /\ \E r \in {solve_edges(work, N)} :
          /\ cube' = r.cube
          /\ work' = r
          /\ result' = IF r.err = "none" /\ r.at = "returned" THEN r.moves ELSE result
          /\ call' = [call EXCEPT !.err = r.err]
          /\ pc' = IF r.err # "none" THEN "raised"
                   ELSE IF r.at = "returned" THEN "done" ELSE "sleeping"
    /\ UNCHANGED <<arrays, lists, N, cls, start, prev, last, nturns, movelist, mutate>>

NextTools ==
    \/ \E t \in { <<"U", 3, 1, 1>>, <<"R", 1, 1, 1>> } : nturns < MaxTools /\ Scramble(t)
    \* two lines of the kind scrambles.json holds, and two draws of N*N*2
    \* quadruples with 1 <= dist <= 3 and 1 <= width <= layer <= N
    \/ \E k \in 1..2 :
         \E line \in {<< << <<"R">>, <<"U", "'">>, <<"F", "2">>, <<"D">>, <<"B", "'">>, <<"L", "2">> >>,
                          << <<"R", "w">>, <<"U", "2">>, <<"F", "w", "'">>, <<"D", "'">>, <<"L">> >> >>[k]} :
         \E draws \in {[i \in 1..(IF N > 7 THEN N * N * 2 ELSE 0) |->
                           << <<"R", "L", "U", "B", "D", "F">>[((i * (k + 4)) % 6) + 1],
                              ((i + k) % 3) + 1,
                              ((i * 3 + k) % N) + 1,
                              ((i * k) % (((i * 3 + k) % N) + 1)) + 1 >>]} :
            ScrambleCall(line, draws)
    \/ OrientTopCall
    \/ (N >= 4 /\ N <= EdgesN /\ CentersCall)
    \/ EdgesCall
    \/ EdgesAfterPrint

SpecTools == InitTools /\ [][NextTools]_vars

\* --------------------------------------- convert_moves_to_ttk (SpecTtk)
\* f"{layer_str}{letter_str}{dist_str}"; index -1 of the list is its last item
get_ttk_wide_move(letter, dist, layer) ==
    LET lower == [R |-> "r", L |-> "l", F |-> "f", B |-> "b", U |-> "u", D |-> "d"]
    IN (IF layer <= 2 THEN <<>> ELSE IntToStr(layer))
       \o <<IF layer > 1 /\ letter \in Letters THEN lower[letter] ELSE letter>>
       \o (IF dist % 4 = 1 THEN <<>> ELSE IF dist % 4 = 2 THEN <<"2">> ELSE <<"'">>)

\* what the loop body appends for one move m: a record [err, moves]
convert_ttk_one(m, n) ==
    LET MOVE_OPPOSITES == [R |-> "L", F |-> "B", U |-> "D", L |-> "R", B |-> "F", D |-> "U"]
        half == n \div 2
        none(moves) == [err |-> "none", moves |-> moves]
    IN Then(get_letter_dist_layer_width(m, n), LAMBDA a :
       IF ~a.ok THEN [err |-> "AttributeError", moves |-> <<>>]
       ELSE IF a.layer = 1 \/ (a.layer = a.width /\ a.width = n) THEN none(<<m>>)
       ELSE IF a.layer = half + 1 /\ n % 2 = 1 /\ a.width = 1
       THEN none(<< <<CASE a.letter \in {"R", "L"} -> "M"
                        [] a.letter \in {"F", "B"} -> "S"
                        [] a.letter \in {"U", "D"} -> "E">>
                    \o (LET d == (IF a.letter \in {"R", "F", "U"} THEN -a.dist ELSE a.dist) % 4
                        IN IF d = 1 THEN <<>> ELSE IF d = 2 THEN <<"2">> ELSE <<"'">>) >>)
       ELSE IF a.layer > half
       THEN IF a.letter \notin Letters /\ (a.layer = a.width \/ a.width = 1)
            THEN [err |-> "KeyError", moves |-> <<>>]
            ELSE IF a.layer = a.width
            THEN none(<<get_ttk_wide_move(MOVE_OPPOSITES[a.letter], a.dist, n - a.layer)>>
                      \o get_move(MOVE_OPPOSITES[a.letter], -a.dist, n, n, n).moves)
            ELSE IF a.width = 1
            THEN IF n = a.layer
                 THEN none(get_move(MOVE_OPPOSITES[a.letter], -a.dist, 1, 1, 1).moves)
                 ELSE none(<<get_ttk_wide_move(MOVE_OPPOSITES[a.letter], -a.dist, n - a.layer + 1),
                             get_ttk_wide_move(MOVE_OPPOSITES[a.letter], a.dist, n - a.layer)>>)
            ELSE none(<<>>)
       ELSE none(<<get_ttk_wide_move(a.letter, a.dist, a.layer)>>
                 \o (IF a.width = 1
                     THEN <<get_ttk_wide_move(a.letter, -a.dist, a.layer - 1)>>
                     ELSE <<>>)))

\* a record [err, moves]: new_moves, or the exception the loop stopped with
\* and no list
RECURSIVE convert_moves_to_ttk(_, _)
convert_moves_to_ttk(moves, n) ==
    IF moves = <<>> THEN [err |-> "none", moves |-> <<>>]
    ELSE Then(convert_moves_to_ttk(SubSeq(moves, 1, Len(moves) - 1), n), LAMBDA done :
             IF done.err # "none" THEN done
             ELSE Then(convert_ttk_one(moves[Len(moves)], n), LAMBDA one :
                      IF one.err # "none" THEN [err |-> one.err, moves |-> <<>>]
                      ELSE [err |-> "none", moves |-> done.moves \o one.moves]))

\* A list of tokens is parsed on a solved cube of side TtkN, token by token,
\* and then handed to convert_moves_to_ttk; the list it returns is parsed on a
\* second solved cube. result is the returned list and work what the second
\* parse left. When the conversion raises, nothing is returned and nothing is
\* parsed: result stays, and work.err is the exception.
TtkN == 7

InitTtk ==
    /\ N = TtkN
    /\ cls = "Cube"
    /\ cube = SolvedCube(N)
    /\ start = cube
    /\ prev = cube
    /\ last = NoTurn
    /\ nturns = 0
    /\ movelist = <<>>
    /\ NoSolve
    /\ arrays = <<>>
    /\ lists = [caller |-> <<>>, reduced |-> <<>>]

\* convert_moves_to_ttk(movelist, N), and the parse of what it returned
TtkConvert ==
    /\ pc = "idle"
    /\ movelist # <<>>
    /\ \E ttk \in {convert_moves_to_ttk(movelist, N)} :
          /\ result' = IF ttk.err # "none" THEN result ELSE ttk.moves
          /\ work' = IF ttk.err # "none"
                     THEN [cube |-> start, moves |-> <<>>, err |-> ttk.err]
                     ELSE parseM([cube |-> start, moves |-> <<>>, err |-> "none"], N, ttk.moves)
          /\ pc' = IF ttk.err # "none" THEN "raised" ELSE "done"
    /\ UNCHANGED <<arrays, lists, N, cls, cube, start, prev, last, nturns, movelist, mutate, call>>

NextTtk ==
    \/ \E tok \in { <<"2", "R", "w">>, <<"5", "R">>, <<"U", "'">>, <<"4", "R">>,
                     <<"6", "R", "w">>, <<"7", "L", "2">>, <<"r">>, <<"x", "2">> } :
           pc = "idle" /\ ParseToken(tok)
    \/ TtkConvert

SpecTtk == InitTtk /\ [][NextTtk]_vars

\* ------------------------------------ solving a reassembled cube (SpecStages)
\* The calls of SpecSolve, on a 3x3 that is either the solved cube or a cube
\* built by from_simple_string from the string of the solved cube with two
\* of its characters exchanged: the two facelets of the edge between TOP and
\* FRONT (the edge is flipped), or the side facelets of the edges between
\* TOP and FRONT and between TOP and RIGHT (the two edges are swapped).
\* call holds that call of from_simple_string.

\* Cube.from_simple_string(the string with characters i and j exchanged)
Reassemble(i, j) ==
    /\ N = 3
    /\ pc = "idle"
    /\ nturns = 0
    /\ call.op = ""
    /\ \E str \in {to_simple_string(cube, N)} :
       \E r \in {from_simple_string([str EXCEPT ![i] = str[j], ![j] = str[i]])} :
          /\ cube' = r.cube
          /\ start' = r.cube
          /\ prev' = r.cube
          /\ call' = [op |-> "from_simple_string",
                      args |-> <<[str EXCEPT ![i] = str[j], ![j] = str[i]]>>,
                      err |-> "none", out |-> r.cube]
    \* if N == 3: return Cube3x3(scramble=cube_matrix)
    /\ cls' = "Cube3x3"
    /\ UNCHANGED <<arrays, lists, N, last, nturns, movelist, pc, mutate, work, result>>

NextStages ==
    \/ \E p \in { <<2, 44>>, <<2, 29>> } : Reassemble(p[1], p[2])
    \/ \E t \in ScrambleTurns : Scramble(t)
    \/ \E mutate_original \in BOOLEAN : Call(mutate_original)
    \/ Stage
    \/ Return

SpecStages == InitSolve /\ [][NextStages]_vars

\* ------------------------------------------------ single calls (SpecCalls)
\* Calls on one cube object, each made whatever the outcome of the one before.
\* Here work is what the latest call left: the cube, the list supplied as
\* movelist / output_movelist (the same list in every call) and the exception
\* raised; pc is "returned" or "raised"; last is the arguments of the last call
\* of turn that the latest turning call made (NoTurn when it made none);
\* movelist is the tokens handed to parse; nturns counts the calls.
MaxCalls == 2

\* the largest side of the cubes the calls are made on
CallsN == 4

InitCalls ==
    /\ N \in 1..CallsN
    /\ cls = (IF N = 3 THEN "Cube3x3" ELSE "Cube")
    /\ cube = SolvedCube(N)
    /\ start = cube
    /\ prev = cube
    /\ last = NoTurn
    /\ nturns = 0
    /\ movelist = <<>>
    /\ NoSolve
    /\ arrays = <<>>
    /\ lists = [caller |-> <<>>, reduced |-> <<>>]

\* cube.turn(move, dist, layer, width, movelist)
TurnCall(move, dist, layer, width) ==
    /\ nturns < MaxCalls
    /\ \E st \in {turnM([cube |-> cube, moves |-> work.moves, err |-> "none"], N, move, dist, layer, width)} :
          /\ work' = st
          /\ cube' = st.cube
          /\ pc' = IF st.err = "none" THEN "returned" ELSE "raised"
    /\ prev' = cube
    /\ last' = [move |-> move, dist |-> dist, layer |-> layer, width |-> width]
    /\ nturns' = nturns + 1
    /\ UNCHANGED <<arrays, lists, N, cls, start, movelist, mutate, result, call>>

\* cube.parse(tok, output_movelist)
ParseCall(tok) ==
    /\ nturns < MaxCalls
    /\ \E st \in {parseM([cube |-> cube, moves |-> work.moves, err |-> "none"], N, <<tok>>)} :
          /\ work' = st
          /\ cube' = st.cube
          /\ pc' = IF st.err = "none" THEN "returned" ELSE "raised"
    /\ \E a \in {get_letter_dist_layer_width(tok, N)} :
          last' = IF a.ok
                  THEN [move |-> Upper(a.letter), dist |-> a.dist,
                        layer |-> a.layer, width |-> a.width]
                  ELSE NoTurn
    /\ prev' = cube
    /\ movelist' = Append(movelist, tok)
    /\ nturns' = nturns + 1
    /\ UNCHANGED <<arrays, lists, N, cls, start, mutate, result, call>>

\* Cube3x3.get_corner_between(a, b, c3)
CornerCall(a, b, c3) ==
    /\ N = 3
    /\ nturns < MaxCalls
    /\ \E e \in {IllegalCorner(a, b, c3)} :
          call' = [op |-> "get_corner_between", args |-> <<a, b, c3>>, err |-> e,
                   out |-> IF e = "none" THEN get_corner_between(cube, a, b, c3) ELSE <<>>]
    /\ nturns' = nturns + 1
    /\ UNCHANGED <<arrays, lists, N, cls, cube, start, prev, last, movelist, pc, mutate, work, result>>

\* cube.get_3x3(), with the cube (self) as its argument
Get3x3Call ==
    /\ nturns < MaxCalls
    /\ \E r \in {get_3x3(cube, N)} :
          call' = [op |-> "get_3x3", args |-> <<cube>>,
                   err |-> IF r.ok THEN "none"
                           ELSE "AssertionError: Cube could not be converted to a 3x3",
                   out |-> r.cube]
    /\ nturns' = nturns + 1
    /\ UNCHANGED <<arrays, lists, N, cls, cube, start, prev, last, movelist, pc, mutate, work, result>>

\* a.get_rotation_to(other) for cubes of side n: a record [err, moves] with
\* the list of rotations returned, or the exception raised. self_copy is the
\* state [cube, moves, err] of the 3x3 copy and of the list `rotations`.
get_rotation_to(a, other, n) ==
    Then(get_3x3(other, n), LAMBDA other_3x3 :
    Then(IF other_3x3.ok THEN get_3x3(a, n) ELSE other_3x3, LAMBDA self_3x3 :
        IF ~self_3x3.ok
        THEN [err |-> "AssertionError: Cube could not be converted to a 3x3", moves |-> <<>>]
        ELSE
        Then(get_corner_between(other_3x3.cube, TOP, LEFT, FRONT), LAMBDA top_left_corner :
        Then({p \in {<<x, y, z>> : x \in {LEFT, RIGHT}, y \in {TOP, BOTTOM}, z \in {FRONT, BACK}} :
                 DOMAIN get_corner_between(self_3x3.cube, p[1], p[2], p[3]).c2f
                     = DOMAIN top_left_corner.c2f}, LAMBDA found :
            IF found = {} THEN [err |-> "UnboundLocalError", moves |-> <<>>]
            ELSE
            \* the last corner that matches, z being the outer loop and x the inner
            Then(CHOOSE p \in found : \A q \in found :
                     \/ q = p
                     \/ (q[3] = FRONT /\ p[3] = BACK)
                     \/ (q[3] = p[3] /\ q[2] = TOP /\ p[2] = BOTTOM)
                     \/ (q[3] = p[3] /\ q[2] = p[2] /\ q[1] = LEFT /\ p[1] = RIGHT),
                 LAMBDA corner :
            Then([cube |-> self_3x3.cube, moves |-> <<>>, err |-> "none"], LAMBDA s0 :
            Then(IF corner[3] = BACK THEN parseM(s0, 3, <<Tok2("y")>>) ELSE s0, LAMBDA s1 :
            Then(IF (corner[1] = LEFT) = (corner[3] = BACK)
                 THEN parseM(s1, 3, <<Tok("y")>>) ELSE s1, LAMBDA s2 :
            Then(IF corner[2] = BOTTOM THEN parseM(s2, 3, <<Tok("x")>>) ELSE s2, LAMBDA s3 :
            Then(get_corner_between(s3.cube, TOP, LEFT, FRONT).c2f, LAMBDA c2f :
                IF ~(DOMAIN top_left_corner.c2f \subseteq DOMAIN c2f)
                THEN [err |-> "AssertionError", moves |-> s3.moves]
                ELSE
                Then(IF c2f[top_left_corner.f2c[FRONT]] = FRONT THEN s3
                     ELSE IF c2f[top_left_corner.f2c[FRONT]] = TOP
                     THEN parseM(s3, 3, <<Tok("y"), TokP("x")>>)
                     ELSE IF c2f[top_left_corner.f2c[FRONT]] = LEFT
                     THEN parseM(s3, 3, <<Tok("x"), TokP("y")>>)
                     ELSE [s3 EXCEPT !.err = "Exception: Something went wrong."],
                     LAMBDA s4 :
                    IF s4.err # "none" THEN [err |-> s4.err, moves |-> s4.moves]
                    ELSE IF get_corner_between(s4.cube, TOP, LEFT, FRONT) # top_left_corner
                    THEN [err |-> "AssertionError", moves |-> s4.moves]
                    ELSE [err |-> "none", moves |-> s4.moves])))))))))))

\* cube.get_rotation_to(other), where other is a copy of the cube that the
\* rotations of the list orientation have turned as a whole
RotationCall(orientation) ==
    /\ nturns < MaxCalls
    /\ \E other \in {parse(cube, N, orientation).cube} :
       \E r \in {get_rotation_to(cube, other, N)} :
          call' = [op |-> "get_rotation_to", args |-> <<cube, other>>,
                   err |-> r.err, out |-> r.moves]
    /\ nturns' = nturns + 1
    /\ UNCHANGED <<arrays, lists, N, cls, cube, start, prev, last, movelist, pc, mutate, work, result>>

\* convert_3x3_moves_to_NxN(moves, N): a record [err, moves] with new_moves,
\* or with the exception that get_letter_dist_layer_width or get_move raised
\* on the first token that makes one raise, and no list
RECURSIVE convert_3x3_moves_to_NxN(_, _)
convert_3x3_moves_to_NxN(moves, n) ==
    IF moves = <<>> THEN [err |-> "none", moves |-> <<>>]
    ELSE Then(get_letter_dist_layer_width(Head(moves), 3), LAMBDA a :
         IF ~a.ok THEN [err |-> "AttributeError", moves |-> <<>>]
         ELSE Then(IF a.layer = 1 THEN [moves |-> <<Head(moves)>>, err |-> "none"]
                   ELSE IF a.layer = 2
                   THEN get_move(a.letter, a.dist, n - 1, n - 3 + a.width, n)
                   ELSE get_move(a.letter, a.dist, n,
                                 IF a.width = 1 THEN 1 ELSE n - 3 + a.width, n), LAMBDA new :
              IF new.err # "none" THEN [err |-> new.err, moves |-> <<>>]
              ELSE Then(convert_3x3_moves_to_NxN(Tail(moves), n), LAMBDA rest :
                   IF rest.err # "none" THEN rest
                   ELSE [err |-> "none", moves |-> new.moves \o rest.moves])))

\* moves_to_solve = convert_3x3_moves_to_NxN(moves, N) and
\* cube.parse(moves_to_solve), for a cube that has a 3x3 form and a list of
\* tokens for that 3x3. When the conversion raises, nothing is returned and
\* nothing is parsed. Otherwise the cube is turned and result is the converted list;
\* work, pc and last are what that parse left (it is handed no list). out holds
\* the 3x3 form of the cube after the parse next to cube.get_3x3().parse(moves),
\* computed before it.
ConvertCall(moves) ==
    /\ N >= 4
    /\ nturns < MaxCalls
    /\ get_3x3(cube, N).ok
    /\ \E conv \in {convert_3x3_moves_to_NxN(moves, N)} :
       \E big \in {parse(cube, N, conv.moves)} :
       \E small \in {parse(get_3x3(cube, N).cube, 3, moves)} :
          /\ call' = [op |-> "convert_3x3_moves_to_NxN", args |-> <<cube, moves>>,
                      err |-> IF conv.err # "none" THEN conv.err
                              ELSE IF big.err # "none" THEN big.err ELSE small.err,
                      out |-> [moves |-> conv.moves,
                               converted |-> get_3x3(big.cube, N),
                               direct |-> small.cube]]
          /\ cube' = big.cube
          /\ result' = IF conv.err = "none" THEN conv.moves ELSE result
          /\ work' = [cube |-> big.cube, moves |-> work.moves,
                      err |-> IF conv.err # "none" THEN conv.err ELSE big.err]
          /\ pc' = IF conv.err = "none" /\ big.err = "none" THEN "returned" ELSE "raised"
          /\ last' = IF conv.moves = <<>> \/ big.err # "none" THEN NoTurn
                     ELSE Then(get_letter_dist_layer_width(conv.moves[Len(conv.moves)], N),
                               LAMBDA a : [move |-> Upper(a.letter), dist |-> a.dist,
                                           layer |-> a.layer, width |-> a.width])
    /\ prev' = cube
    /\ nturns' = nturns + 1
    /\ UNCHANGED <<arrays, lists, N, cls, start, movelist, mutate>>

\* Cube.from_simple_string(cube_string)
FromStringCall(cube_string) ==
    /\ nturns < MaxCalls
    /\ \E r \in {from_simple_string(cube_string)} :
          call' = [op |-> "from_simple_string", args |-> <<cube_string>>,
                   err |-> IF r.ok THEN "none" ELSE "AssertionError",
                   out |-> r.cube]
    /\ nturns' = nturns + 1
    /\ UNCHANGED <<arrays, lists, N, cls, cube, start, prev, last, movelist, pc, mutate, work, result>>

NextCalls ==
    \* the strings handed to from_simple_string: the string of a cube, that
    \* string with a character less, a character more or a character that is
    \* no colour letter, and the empty string
    \/ \E str \in {to_simple_string(cube, N)} :
           \E cube_string \in {str, Tail(str), Append(str, "g"),
                               [str EXCEPT ![Len(str)] = "G"],
                               [str EXCEPT ![1] = " "], SubSeq(str, 1, 6), <<>>} :
               FromStringCall(cube_string)
    \/ Get3x3Call
    \* lists of tokens that are legal on a 3x3
    \/ \E moves \in { << <<"R">> >>, << <<"2", "F">> >>, << <<"U", "w">>, <<"R", "'">> >>,
                       << <<"3", "R", "w">> >>, << <<"x">> >>, << <<"r">> >>,
                       << <<"3", "L", "w", "2">> >> } :
           ConvertCall(moves)
    \/ \E orientation \in { <<>>, << <<"x">> >>, << <<"y", "'">> >>, << <<"z", "2">> >>,
                             << <<"x">>, <<"y">> >>, << <<"z", "'">>, <<"x", "2">> >> } :
           RotationCall(orientation)
    \/ \E a \in DOMAIN cube, b \in DOMAIN cube, c3 \in DOMAIN cube : CornerCall(a, b, c3)
    \/ \E move \in Letters, dist \in {1, 2}, layer \in 1..(N + 1), width \in 1..(N + 1) :
           TurnCall(move, dist, layer, width)
    \* the tokens handed to parse: well formed, too deep for the cube,
    \* malformed, and with no move letter
    \/ \E tok \in { <<"R">>, <<"U", "'">>, <<"2", "R", "w">>, <<"x", "2">>,
                     <<"4", "R">>, <<"5", "U", "w">>, <<"R", "U">>, <<"R", "3">>,
                     <<"R", "q">>, <<"3", "r">>, <<"q">>, <<"2", "'">> } :
           ParseCall(tok)

SpecCalls == InitCalls /\ [][NextCalls]_vars

\* ------------------------------------------------- storage (SpecStore)
\* self._cube is a list of six numpy arrays, one per face (Cube.__init__).
\* The turn primitives write the bands into these arrays in place, and
\* __rotate puts np.rot90 of an array, a view of the same memory, back into
\* the list: every write of a cube lands in the arrays its list names, and is
\* seen by every list that names them. Arrays that no list names any more are
\* left out of arrays.
MaxStore == 5

\* the cube that a list of six arrays shows: self._cube[face.value]
Load(h, list) == [f \in 0..5 |-> h[list[f + 1]]]

\* the memory after the cube whose list is given has been written to show c
Save(h, list, c) ==
    [a \in DOMAIN h |->
        IF \E f \in 0..5 : list[f + 1] = a
        THEN c[CHOOSE f \in 0..5 : list[f + 1] = a]
        ELSE h[a]]

\* a cube whose list names the six arrays made first, whatever they hold for
\* other cubes
new_arrays_shared(h, c) ==
    [arrays |-> Save(h, <<1, 2, 3, 4, 5, 6>>, c), list |-> <<1, 2, 3, 4, 5, 6>>]

\* six new arrays holding the faces of c (np.array(...) per face, or deepcopy
\* of a list of arrays), as the memory with them and the list that names them
new_arrays(h, c) ==
    [arrays |-> h \o [k \in 1..6 |-> c[k - 1]],
     list |-> [k \in 1..6 |-> Len(h) + k]]

\* Cube(side_length=N), or Cube3x3() when N = 3 as parse_args builds it
InitStore ==
    /\ N \in 1..4
    /\ cls = (IF N = 3 THEN "Cube3x3" ELSE "Cube")
    /\ cube = SolvedCube(N)
    /\ start = cube
    /\ prev = cube
    /\ last = NoTurn
    /\ nturns = 0
    /\ movelist = <<>>
    /\ NoSolve
    /\ arrays = [k \in 1..6 |-> SolvedCube(N)[k - 1]]
    /\ lists = [caller |-> <<1, 2, 3, 4, 5, 6>>, reduced |-> <<>>]

\* a legal turn of the caller's cube (name = "caller") or of the cube that
\* get_3x3 returned (name = "reduced"), through the list of that cube
TurnObject(name, t) ==
    /\ nturns < MaxStore
    /\ lists[name] # <<>>
    /\ \E n \in {IF name = "caller" THEN N ELSE 3} :
          /\ ~InvalidTurn(n, t[3], t[4])
          /\ arrays' = Save(arrays, lists[name],
                            turn(Load(arrays, lists[name]), n, t[1], t[2], t[3], t[4]))
    /\ cube' = Load(arrays', lists.caller)
    /\ prev' = cube
    /\ last' = [move |-> t[1], dist |-> t[2], layer |-> t[3], width |-> t[4]]
    /\ call' = [op |-> "turn", args |-> <<name, t>>, err |-> "none", out |-> <<>>]
    /\ nturns' = nturns + 1
    /\ UNCHANGED <<N, cls, start, movelist, pc, mutate, work, result, lists>>

\* reduced = cube.get_3x3(): output = Cube3x3() makes six new arrays, and the
\* facelets are written into them one by one (the colours are Enum members,
\* not arrays). When the assertion fails nothing is returned. work holds the
\* cube as it was returned; the arrays of a cube returned earlier are dropped.
Get3x3Store ==
    /\ nturns < MaxStore
    /\ \E r \in {get_3x3(Load(arrays, lists.caller), N)} :
       \E output \in {new_arrays(SubSeq(arrays, 1, 6), SolvedCube(3))} :
          /\ arrays' = IF r.ok THEN Save(output.arrays, output.list, r.cube) ELSE arrays
          /\ lists' = IF r.ok THEN [lists EXCEPT !.reduced = output.list] ELSE lists
          /\ work' = IF r.ok THEN [cube |-> r.cube, moves |-> <<>>, err |-> "none"] ELSE work
          /\ call' = [op |-> "get_3x3", args |-> <<cube>>,
                      err |-> IF r.ok THEN "none"
                              ELSE "AssertionError: Cube could not be converted to a 3x3",
                      out |-> r.cube]
    /\ cube' = Load(arrays', lists.caller)
    /\ prev' = cube
    /\ nturns' = nturns + 1
    /\ UNCHANGED <<N, cls, start, last, movelist, pc, mutate, result>>

\* SolvePipeline.__call__ from stage k on: moves += func(cube) for each stage
\* of the pipeline of a cube of side n and class cl, up to the first stage
\* that raises, and then clean_moves(moves)
RECURSIVE SolvePipeline(_, _, _, _)
SolvePipeline(k, st, n, cl) ==
    IF st.err # "none" THEN [st EXCEPT !.moves = <<>>]
    ELSE IF k > NumStages(n) THEN [st EXCEPT !.moves = clean_moves(st.moves)]
    ELSE Then(IF n = 2 THEN PIPELINE_2x2(k, st)
              ELSE IF cl = "Cube3x3" THEN PIPELINE_3x3(k, st)
              ELSE PIPELINE_3x3_on_Cube(k, st),
              LAMBDA nx : SolvePipeline(k + 1, nx, n, cl))

\* solve(cube, mutate_original) from the call to the return or the raise, for
\* the sides whose pipeline the sources hold (N <= 3): the deep copy makes new
\* arrays for solve's cube, the 2x2 gets its 3x3 form from get_3x3, the
\* stages turn the cube they are handed, and with mutate_original the moves
\* are parsed on the 2x2. The arrays of solve's own cubes are dropped at the
\* return. One call of solve is followed (pc = "idle" until it is made).
SolveStore(mutate_original) ==
    /\ nturns < MaxStore
    /\ pc = "idle"
    /\ N <= 3
    /\ \E own \in {IF mutate_original
                    THEN [arrays |-> arrays, list |-> lists.caller]
                    ELSE new_arrays(arrays, Load(arrays, lists.caller))} :
       \E handed \in {IF N = 2
                       THEN new_arrays(own.arrays, get_3x3(Load(own.arrays, own.list), N).cube)
                       ELSE own} :
       \E st \in {IF N = 1 THEN [cube |-> <<>>, moves |-> <<>>, err |-> "none"]
                   ELSE SolvePipeline(1, [cube |-> Load(handed.arrays, handed.list),
                                          moves |-> <<>>, err |-> "none"], N, cls)} :
       \E moves \in {IF N = 2 /\ st.err = "none"
                      THEN convert_3x3_moves_to_2x2(st.moves) ELSE st.moves} :
       \E turned \in {IF N = 1 THEN handed.arrays
                       ELSE Save(handed.arrays, handed.list, st.cube)} :
          /\ arrays' = SubSeq(IF N = 2 /\ st.err = "none" /\ mutate_original
                              THEN Save(turned, own.list,
                                        parse(Load(turned, own.list), N, moves).cube)
                              ELSE turned,
                              1, Len(arrays))
          /\ result' = IF st.err = "none" THEN moves ELSE result
          /\ pc' = IF st.err = "none" THEN "done" ELSE "raised"
          /\ call' = [op |-> "solve", args |-> <<cube, mutate_original>>,
                      err |-> st.err, out |-> moves]
    /\ cube' = Load(arrays', lists.caller)
    /\ start' = cube
    /\ prev' = cube
    /\ mutate' = mutate_original
    /\ nturns' = nturns + 1
    /\ UNCHANGED <<N, cls, last, movelist, work, lists>>

\* the turns are of an outer layer and of the second layer from the front
NextStore ==
    \/ \E t \in { <<"R", 1, 1, 1>>, <<"F", 1, 2, 1>> } : TurnObject("caller", t)
    \/ \E t \in { <<"R", 1, 1, 1>>, <<"F", 1, 2, 1>> } : TurnObject("reduced", t)
    \/ Get3x3Store
    \/ \E mutate_original \in BOOLEAN : SolveStore(mutate_original)

SpecStore == InitStore /\ [][NextStore]_vars

\* ================================================================== claims
Opposite(d) == (4 - (d % 4)) % 4

\* C1: for every cube reachable from the solved cube by legal turns,
\* from_simple_string(to_simple_string(c)) is a cube with the same N and the
\* same colour at every facelet of all six faces.
C1_RoundTrip ==
    LET r == from_simple_string(to_simple_string(cube, N))
    IN r.ok /\ r.N = N /\ r.cube = cube

\* a turned cube of side 3 whose faces are no longer uniform went through the
\* round trip
C1_Witness ==
    /\ N = 3 /\ nturns >= 1 /\ cube # start
    /\ \E i \in 0..2, j \in 0..2 : cube[FRONT][i][j] # cube[FRONT][j][i]
    /\ from_simple_string(to_simple_string(cube, N)).cube = cube

\* C2: to_simple_string returns exactly 6*N*N characters; character number
\* f*N*N + i*N + j (0-based) is the letter of the colour at row i, column j
\* of face f, faces in the order FRONT, LEFT, BACK, RIGHT, TOP, BOTTOM, and
\* the colour-to-letter mapping is one-to-one over the six colours.
C2_FlatLayout ==
    LET s == to_simple_string(cube, N)
        order == <<FRONT, LEFT, BACK, RIGHT, TOP, BOTTOM>>
    IN /\ Len(s) = 6 * N * N
       /\ \A f \in 0..5, i \in 0..(N - 1), j \in 0..(N - 1) :
              s[f * N * N + i * N + j + 1] = COLOR_TO_STRING[cube[order[f + 1]][i][j]]
       /\ DOMAIN COLOR_TO_STRING = {GREEN, ORANGE, BLUE, RED, WHITE, YELLOW}
       /\ \A a \in DOMAIN COLOR_TO_STRING, b \in DOMAIN COLOR_TO_STRING :
              COLOR_TO_STRING[a] = COLOR_TO_STRING[b] => a = b

\* the flat string of a turned cube of side 3 whose FRONT face holds two
\* colours in one row
C2_Witness ==
    /\ N = 3 /\ nturns >= 1
    /\ cube[FRONT][0][0] # cube[FRONT][0][2]
    /\ Len(to_simple_string(cube, N)) = 54
    /\ to_simple_string(cube, N)[1] # to_simple_string(cube, N)[3]

\* C3: turn distances add modulo 4: the latest turn (distance d1) followed by
\* a turn of the same letter, layer and width by d2 leaves the cube as one turn
\* by (d1 + d2) mod 4 of the cube before; d1 followed by 4 - d1 or by -d1, and
\* four quarter turns, give back the cube they started from.
C3_TurnsAdd ==
    last # NoTurn =>
        /\ \A d2 \in -3..4 :
              turn(cube, N, last.move, d2, last.layer, last.width)
                  = turn(prev, N, last.move, (last.dist + d2) % 4, last.layer, last.width)
        /\ turn(cube, N, last.move, 4 - last.dist, last.layer, last.width) = prev
        /\ turn(cube, N, last.move, -last.dist, last.layer, last.width) = prev
        /\ LET quarter(c) == turn(c, N, last.move, 1, last.layer, last.width)
               c1 == quarter(cube)
           IN (c1 = c1) /\
              LET c2 == quarter(c1)
              IN (c2 = c2) /\
                 LET c3 == quarter(c2)
                 IN (c3 = c3) /\ quarter(c3) = cube

\* an inner slice of a cube of side 3 was turned, which changed the cube, and
\* turning it back restores the cube before
C3_Witness ==
    /\ N = 3 /\ nturns = 2 /\ last # NoTurn
    /\ last.layer = 2 /\ last.width = 1 /\ last.dist = 3
    /\ cube # prev
    /\ turn(cube, N, last.move, -last.dist, last.layer, last.width) = prev

\* C4: parsing the tokens get_move renders for the latest turn, in order,
\* on the cube before has the same effect as the turn itself.
C4_RenderParse ==
    last # NoTurn =>
        parse(prev, N, get_move(last.move, last.dist, last.layer, last.width, N).moves).cube
            = cube

\* C5: clean_moves emits, for every maximal run of consecutive tokens with
\* the same root, no token when the run's distances sum to 0 modulo 4 and
\* exactly one token otherwise, the last run included.
RECURSIVE RunEnd(_, _)
RunEnd(m, k) ==
    IF k < Len(m) /\ get_root_move(m[k + 1]) = get_root_move(m[k])
    THEN RunEnd(m, k + 1) ELSE k
RECURSIVE RunDist(_, _, _)
RunDist(m, lo, hi) == IF lo > hi THEN 0 ELSE get_dist(m[lo]) + RunDist(m, lo + 1, hi)
RECURSIVE RunsCleaned(_, _)
RunsCleaned(m, k) ==
    IF k > Len(m) THEN <<>>
    ELSE LET e == RunEnd(m, k)
             d == RunDist(m, k, e) % 4
         IN (IF d = 0 THEN <<>>
             ELSE <<get_root_move(m[k]) \o
                    (IF d = 2 THEN <<"2">> ELSE IF d = 3 THEN <<"'">> ELSE <<>>)>>)
            \o RunsCleaned(m, e + 1)

C5_CleanRuns == clean_moves(movelist) = RunsCleaned(movelist, 1)

\* C6: clean_moves is idempotent.
C6_CleanIdempotent == clean_moves(clean_moves(movelist)) = clean_moves(movelist)

\* C7: applying a move list and then reverse_moves of it returns the cube to
\* its original state; reverse_moves(m) is m in reverse order with each
\* token's distance d replaced by (4 - d) mod 4 and its root unchanged.
C7_ReverseUndoes ==
    LET r == reverse_moves(movelist)
        L == Len(movelist)
    IN /\ parse(cube, N, r).err = "none"
       /\ parse(cube, N, r).cube = start
       /\ Len(r) = L
       /\ \A k \in 1..L :
              /\ get_root_move(r[k]) = get_root_move(movelist[L + 1 - k])
              /\ get_dist(r[k]) % 4 = Opposite(get_dist(movelist[L + 1 - k]))

\* three tokens of two different roots were parsed, the cube changed, and the
\* reversed list brings it back
C7_Witness ==
    /\ Len(movelist) = 3
    /\ get_root_move(movelist[1]) # get_root_move(movelist[2])
    /\ get_dist(movelist[3]) = 1
    /\ cube # start
    /\ parse(cube, N, reverse_moves(movelist)).cube = start

\* every facelet of every face equals that face's centre (its middle cell for
\* a cube of side 3)
AllUniform(c) == \A f \in 0..5 : face_uniform(c, f)

\* C8: for every 3x3 state reachable from the solved cube by legal turns,
\* running PIPELINE_3x3 on it raises no exception and leaves all six faces
\* uniform, every facelet equal to its face's centre. The stages take a
\* Cube3x3: the cube is an object of that class.
C8_PipelineSolves ==
    N = 3 /\ cls = "Cube3x3" /\ pc # "idle" =>
        /\ work.err = "none"
        /\ pc # "raised"
        /\ pc = "done" =>
               \A f \in 0..5, i \in 0..2, j \in 0..2 :
                   work.cube[f][i][j] = work.cube[f][1][1]

\* the pipeline has run on a 3x3 that three turns had scrambled, centres
\* included, and returned a list of more than twenty moves with the cube solved
C8_Witness ==
    /\ N = 3 /\ cls = "Cube3x3" /\ pc = "done"
    /\ ~AllUniform(start)
    /\ start[BOTTOM][1][1] # WHITE
    /\ Len(result) > 20
    /\ AllUniform(work.cube)

\* C9: the move list a SolvePipeline call returns is a faithful record: for
\* every reachable 3x3 state s, parsing the list PIPELINE_3x3 returned on a
\* fresh copy of s gives the final state the pipeline left in its cube.
C9_FaithfulRecord ==
    N = 3 /\ pc = "done" =>
        \A replayed \in {parse(start, N, result)} :
            replayed.err = "none" /\ replayed.cube = work.cube

\* C10: for every reachable 2x2 state, solve(cube, mutate_original=True)
\* leaves every face of that 2x2 uniform.
C10_Solve2x2 ==
    N = 2 /\ pc = "done" /\ mutate => AllUniform(cube)

\* C11: a call of turn, made directly or by parse, with width > layer or
\* layer > N fails with the 'Invalid turn' assertion error, and the failed
\* call changes no facelet of the cube and appends nothing to the supplied
\* move list.
C11_InvalidTurnRejected ==
    [][ ( /\ nturns' = nturns + 1
          /\ last' # NoTurn
          /\ (last'.width > last'.layer \/ last'.layer > N) ) =>
            /\ pc' = "raised"
            /\ work'.err = "AssertionError: Invalid turn"
            /\ cube' = cube
            /\ work'.cube = cube
            /\ work'.moves = work.moves ]_vars

\* a call of turn with width > layer was made on a cube of side 3 that an
\* earlier call had turned and whose list held that call's move; it raised
\* and left both as they were
C11_Witness ==
    /\ N = 3 /\ nturns = 2 /\ pc = "raised"
    /\ last # NoTurn /\ last.width > last.layer /\ last.layer <= N
    /\ cube # start /\ cube = prev
    /\ Len(work.moves) = 1

\* C12: get_corner_between called with three faces two of which are opposite
\* fails with the 'Illegal corner combination' error, in every cube state,
\* and returns no piece.
C12_IllegalCorner ==
    ( /\ call.op = "get_corner_between"
      /\ \E i, j \in 1..3 : \E k \in DOMAIN FACE_PAIRS :
            /\ call.args[i] # call.args[j]
            /\ InPair(call.args[i], FACE_PAIRS[k])
            /\ InPair(call.args[j], FACE_PAIRS[k]) ) =>
        /\ call.err = "AssertionError: Illegal corner combination"
        /\ call.out = <<>>

\* C13: for N >= 3, get_3x3 returns a 3x3 cube whose corner facelets are the
\* source face's corner facelets, whose edge-mid facelets are the single
\* colour of the span between the two corners of that border, and whose
\* centre is the single colour of the interior; when a span or the interior
\* holds more than one colour it fails with 'Cube could not be converted to
\* a 3x3' and returns no cube.
C13_Get3x3 ==
    (call.op = "get_3x3" /\ N >= 3) =>
        LET inner == 1..(N - 2)
            top(f) == {call.args[1][f][0][k] : k \in inner}
            bottom(f) == {call.args[1][f][N - 1][k] : k \in inner}
            left(f) == {call.args[1][f][r][0] : r \in inner}
            right(f) == {call.args[1][f][r][N - 1] : r \in inner}
            interior(f) == {call.args[1][f][r][k] : r \in inner, k \in inner}
            spans(f) == {top(f), bottom(f), left(f), right(f), interior(f)}
        IN IF \A f \in 0..5 : \A s \in spans(f) : Cardinality(s) = 1
           THEN /\ call.err = "none"
                /\ DOMAIN call.out = 0..5
                /\ \A f \in 0..5 :
                      /\ DOMAIN call.out[f] = 0..2
                      /\ \A i \in 0..2 : DOMAIN call.out[f][i] = 0..2
                      /\ call.out[f][0][0] = call.args[1][f][0][0]
                      /\ call.out[f][0][2] = call.args[1][f][0][N - 1]
                      /\ call.out[f][2][0] = call.args[1][f][N - 1][0]
                      /\ call.out[f][2][2] = call.args[1][f][N - 1][N - 1]
                      /\ top(f) = {call.out[f][0][1]}
                      /\ bottom(f) = {call.out[f][2][1]}
                      /\ left(f) = {call.out[f][1][0]}
                      /\ right(f) = {call.out[f][1][2]}
                      /\ interior(f) = {call.out[f][1][1]}
           ELSE /\ call.err = "AssertionError: Cube could not be converted to a 3x3"
                /\ call.out = <<>>

\* get_3x3 returned the 3x3 form of a 4x4 that two turns of outer layers had
\* taken away from solved, with an edge of the 3x3 form off its face's colour
C13_Witness ==
    /\ call.op = "get_3x3" /\ N = 4 /\ call.err = "none"
    /\ call.args[1] # start
    /\ \E f \in 0..5 : call.out[f][1][2] # call.out[f][1][1]

\* the forms of a move token: R, R', R2, 2R, 2Rw, Rw, a lower-case wide
\* letter, or x, y, z, each with an optional ' or 2 at the end
WellFormed(tok) ==
    \E body \in {tok} \cup (IF Len(tok) >= 2 /\ tok[Len(tok)] \in {"'", "2"}
                             THEN {SubSeq(tok, 1, Len(tok) - 1)} ELSE {}) :
        \/ /\ Len(body) = 1
           /\ body[1] \in Letters \cup {"r", "l", "u", "d", "f", "b", "x", "y", "z"}
        \/ /\ Len(body) = 2
           /\ body[1] \in Letters /\ body[2] = "w"
        \/ \E n \in 1..(Len(body) - 1) :
              /\ body[1] # "0"
              /\ \A k \in 1..n : body[k] \in DigitChars
              /\ body[n + 1] \in Letters
              /\ \/ Len(body) = n + 1
                 \/ Len(body) = n + 2 /\ body[n + 2] = "w"

\* C14: parsing a token that has none of the forms of a move fails with an
\* error at the point of parsing and does not turn the cube.
C14_MalformedRejected ==
    [][ (movelist' # movelist /\ ~WellFormed(movelist'[Len(movelist')])) =>
            (pc' = "raised" /\ cube' = cube) ]_vars

\* C15: from_simple_string rejects with an error every string that holds a
\* character outside the six colour letters or whose length is not 6*N*N for
\* an integer N >= 1 (the empty string included), and returns no cube for it.
C15_StringRejected ==
    call.op = "from_simple_string" =>
        LET str == call.args[1]
        IN ( \/ \E k \in 1..Len(str) : str[k] \notin {"g", "o", "b", "r", "w", "y"}
             \/ ~ \E n \in 1..Len(str) : 6 * n * n = Len(str) ) =>
               (call.err # "none" /\ call.out = <<>>)


\* the number of edges of the TOP layer that show YELLOW on TOP
YellowOnTop(c) ==
    Cardinality({p \in {<<0, 1>>, <<1, 0>>, <<1, 2>>, <<2, 1>>} : c[TOP][p[1]][p[2]] = YELLOW})

\* C16: solve_oll_edges raises ImpossibleScrambleException exactly when the
\* number of TOP-layer edges showing YELLOW on TOP is 1 or 3, and then it has
\* applied no turn; when the number is 4 it returns an empty list and leaves
\* the cube unchanged.
C16_OllEdgesParity ==
    [][ (N = 3 /\ pc = "stage" /\ nturns = 4 /\ nturns' = 5) =>
            /\ (work'.err = "ImpossibleScrambleException") <=> (YellowOnTop(work.cube) \in {1, 3})
            /\ work'.err # "none" => pc' = "raised"
            /\ YellowOnTop(work.cube) \in {1, 3, 4} =>
                  (work'.cube = work.cube /\ work'.moves = work.moves)
            /\ YellowOnTop(work.cube) = 4 => work'.err = "none" ]_vars

\* solve_oll_edges raised on a cube with a flipped edge that reached the
\* stage with three edges showing YELLOW on TOP
C16_Witness ==
    /\ N = 3 /\ pc = "raised" /\ nturns = 5
    /\ work.err = "ImpossibleScrambleException"
    /\ YellowOnTop(work.cube) = 3
    /\ Len(work.moves) > 0

\* the number of side faces whose top-row middle facelet differs from the
\* face's top-left facelet
TopEdgesOff(c) ==
    Cardinality({f \in {FRONT, LEFT, BACK, RIGHT} : c[f][0][1] # c[f][0][0]})

\* C17: solve_pll_edges raises ImpossibleScrambleException whenever, in
\* either of its two passes, exactly two of the four side faces have a
\* top-row middle facelet that differs from the face's top-left facelet; for
\* a cube reachable from solved whose last-layer corners are permuted this
\* never happens, and the stage ends with the cube solved.
C17_PllEdgesParity ==
    [][ (N = 3 /\ pc = "stage" /\ nturns = 7 /\ nturns' = 8) =>
            \A pass1 \in {pll_edges_pass(work)} :
                /\ TopEdgesOff(work.cube) = 2 =>
                      work'.err = "ImpossibleScrambleException"
                /\ (pass1.err = "none" /\ TopEdgesOff(pass1.cube) = 2) =>
                      work'.err = "ImpossibleScrambleException"
                /\ work'.err = "ImpossibleScrambleException" => pc' = "raised"
                /\ ( /\ call.op = ""
                     /\ \A f \in {FRONT, LEFT, BACK, RIGHT} :
                           work.cube[f][0][0] = work.cube[f][0][2] ) =>
                      /\ TopEdgesOff(work.cube) # 2
                      /\ TopEdgesOff(pass1.cube) # 2
                      /\ work'.err = "none"
                      /\ \A f \in 0..5 : \A i, j \in 0..2 :
                            work'.cube[f][i][j] = work'.cube[f][1][1] ]_vars

\* solve_pll_edges raised on a scrambled cube built with two edges swapped,
\* after the seven stages before it had run
C17_Witness ==
    /\ N = 3 /\ pc = "raised" /\ nturns = 8
    /\ work.err = "ImpossibleScrambleException"
    /\ call.op = "from_simple_string"
    /\ TopEdgesOff(work.cube) = 2
    /\ Len(work.moves) > 0

\* C18: on a 7x7, convert_moves_to_ttk returns r, 3l', l for 2Rw, 5R, and
\* parsing those three tokens gives the same facelets as parsing 2Rw, 5R.
C18_TtkSamePermutation ==
    (N = 7 /\ pc = "done" /\ movelist = << <<"2", "R", "w">>, <<"5", "R">> >>) =>
        /\ result = << <<"r">>, <<"3", "l", "'">>, <<"l">> >>
        /\ work.err = "none"
        /\ work.cube = cube

\* C19: on a 3x3 with exactly one WHITE centre, orient_centers ends with the
\* WHITE centre on BOTTOM after at most 8 quarter turns of a middle slice
\* (the slice of the R axis in the first four attempts, of the F axis in the
\* last four); it changes no corner facelet and no facelet of an edge outside
\* the middle slices it turned, and makes no turn when WHITE is on BOTTOM.
C19_OrientCenters ==
    [][ ( /\ N = 3 /\ pc = "stage" /\ nturns = 0 /\ nturns' = 1
          /\ Cardinality({f \in 0..5 : work.cube[f][1][1] = WHITE}) = 1 ) =>
            LET before == work.cube
                after == work'.cube
                made == work'.moves
                Same(f, i, j) == after[f][i][j] = before[f][i][j]
            IN /\ work'.err = "none"
               /\ after[BOTTOM][1][1] = WHITE
               /\ Len(made) <= 8
               /\ \A k \in 1..Len(made) :
                     made[k] = IF k <= 4 THEN <<"2", "R">> ELSE <<"2", "F">>
               /\ \A f \in 0..5 : \A i, j \in {0, 2} : Same(f, i, j)
               /\ \A f \in {FRONT, LEFT, BACK, RIGHT} : Same(f, 1, 0) /\ Same(f, 1, 2)
               /\ Len(made) <= 4 =>
                     /\ \A f \in {LEFT, RIGHT} : Same(f, 0, 1) /\ Same(f, 2, 1)
                     /\ \A f \in {TOP, BOTTOM} : Same(f, 1, 0) /\ Same(f, 1, 2)
               /\ Len(made) = 0 =>
                     \A f \in {FRONT, BACK, TOP, BOTTOM} : Same(f, 0, 1) /\ Same(f, 2, 1)
               /\ before[BOTTOM][1][1] = WHITE => (made = <<>> /\ after = before) ]_vars

\* orient_centers found the WHITE centre on a face the first slice does not
\* pass, and brought it to BOTTOM with turns of both middle slices
C19_Witness ==
    /\ N = 3 /\ pc = "stage" /\ nturns = 1
    /\ Len(work.moves) >= 5
    /\ work.moves[5] = <<"2", "F">>
    /\ work.cube[BOTTOM][1][1] = WHITE

\* C20: on a 3x3 reachable from solved with the WHITE centre on BOTTOM,
\* solve_white_cross ends with the four edge positions of BOTTOM showing WHITE
\* on BOTTOM, the side facelet of each of those edges equal to the centre of
\* its side face, and the WHITE centre still on BOTTOM. The cube is a Cube3x3,
\* as the stage's signature says.
C20_WhiteCross ==
    [][ ( /\ N = 3 /\ cls = "Cube3x3" /\ pc = "stage" /\ nturns = 1 /\ nturns' = 2
          /\ call.op = ""
          /\ work.cube[BOTTOM][1][1] = WHITE ) =>
            /\ work'.err = "none"
            /\ pc' = "stage"
            /\ \A p \in {<<0, 1>>, <<1, 0>>, <<1, 2>>, <<2, 1>>} :
                  work'.cube[BOTTOM][p[1]][p[2]] = WHITE
            /\ \A f \in {FRONT, LEFT, BACK, RIGHT} :
                  work'.cube[f][2][1] = work'.cube[f][1][1]
            /\ work'.cube[BOTTOM][1][1] = WHITE ]_vars

\* solve_white_cross built the cross on a scrambled cube, with turns of its own
C20_Witness ==
    /\ N = 3 /\ pc = "stage" /\ nturns = 2
    /\ call.op = ""
    /\ start # SolvedCube(3)
    /\ \E k \in 1..Len(work.moves) : work.moves[k] \notin {<<"2", "R">>, <<"2", "F">>}
    /\ \A p \in {<<0, 1>>, <<1, 0>>, <<1, 2>>, <<2, 1>>} :
          work.cube[BOTTOM][p[1]][p[2]] = WHITE

\* C21: every loop of the 3x3 pipeline converges: for every 3x3 state
\* reachable from the solved cube, each of the eight stages of PIPELINE_3x3,
\* run in order, returns: none of its loops is still running after MaxLoop
\* iterations, and the stage hands over to the next one without raising. The
\* cube is a Cube3x3, the class the stages are written for.
C21_StagesReturn ==
    [][ (N = 3 /\ cls = "Cube3x3" /\ pc = "stage" /\ nturns < 8) =>
            /\ work'.err # "loop cut off"
            /\ work'.err = "none"
            /\ pc' = "stage"
            /\ nturns' = nturns + 1 ]_vars

\* the eight stages have returned on a 3x3 that three turns had scrambled,
\* the last layer included, after more than forty turns of the stages
C21_Witness ==
    /\ N = 3 /\ pc = "done" /\ nturns = 8
    /\ work.err = "none"
    /\ ~face_uniform(start, TOP) /\ ~face_uniform(start, BOTTOM)
    /\ Len(work.moves) > 40

\* C22: for every even N (not only N = 2), get_3x3 substitutes a fixed
\* reference colour for the centre and the edge-mid facelets of the 3x3 it
\* returns (the colour of the solved 3x3 for the centre, WHITE for the edge
\* mids) instead of deriving them from the source cube, so it never fails on a
\* cube of even N, whatever its interior and border spans hold.
C22_EvenSubstitutes ==
    (call.op = "get_3x3" /\ N % 2 = 0) =>
        /\ call.err = "none"
        /\ \A f \in 0..5 :
              /\ call.out[f][1][1] = SolvedCube(3)[f][1][1]
              /\ \A p \in {<<0, 1>>, <<1, 0>>, <<1, 2>>, <<2, 1>>} :
                    call.out[f][p[1]][p[2]] = WHITE

\* the whole-cube rotation tokens: x, y or z, alone or followed by ' or 2
RotationToken(tok) ==
    /\ Len(tok) \in {1, 2}
    /\ tok[1] \in {"x", "y", "z"}
    /\ Len(tok) = 2 => tok[2] \in {"'", "2"}

\* C23: for every pair of cubes a and b of the same N where a equals b up to
\* a whole-cube orientation, a.get_rotation_to(b) returns a list that holds
\* whole-cube rotation tokens only, and parsing that list on a makes a equal
\* to b facelet for facelet.
C23_RotationTo ==
    call.op = "get_rotation_to" =>
        /\ call.err = "none"
        /\ \A k \in 1..Len(call.out) : RotationToken(call.out[k])
        /\ parse(call.args[1], N, call.out).cube = call.args[2]

\* the same, for the cubes of side 2 and 3 only
C23_Sides2And3 ==
    (call.op = "get_rotation_to" /\ N \in {2, 3}) =>
        /\ call.err = "none"
        /\ \A k \in 1..Len(call.out) : RotationToken(call.out[k])
        /\ parse(call.args[1], N, call.out).cube = call.args[2]

\* C24: for every cube with N >= 4 reachable from the solved cube by legal
\* turns, solve_centers terminates with the interior (rows and columns
\* 1..N-2) of each of the six faces uniform, and each application of its
\* 8-turn commutator leaves unchanged the interior facelets of the faces
\* whose colour is already in solved_colors.
C24_CentersSolved ==
    call.op = "solve_centers" =>
        /\ call.err = "none"
        /\ \A f \in 0..5 : \A i \in 1..(N - 2), j \in 1..(N - 2) :
               cube[f][i][j] = cube[f][1][1]
        /\ \A k \in 1..Len(call.out) : \A f \in call.out[k].faces :
               \A i \in 1..(N - 2), j \in 1..(N - 2) :
                   call.out[k].after[f][i][j] = call.out[k].before[f][i][j]

\* solve_centers has returned on a cube whose interiors three turns had
\* mixed on five faces or more, after at least eight commutators, one of
\* them applied while four colours were in solved_colors and one after
\* turns of the FRONT face had freed the cell the commutator fills
C24_Witness ==
    /\ call.op = "solve_centers" /\ call.err = "none"
    /\ Cardinality({f \in 0..5 : \E i \in 1..(N - 2), j \in 1..(N - 2) :
                        start[f][i][j] # start[f][1][1]}) >= 5
    /\ Len(call.out) >= 8
    /\ \E k \in 1..Len(call.out) : Cardinality(call.out[k].faces) = 4
    /\ \E k \in 1..(Len(result) - 1) : result[k] = <<"F">> /\ result[k + 1] = <<"F">>

\* the face a move letter names, and the face opposite to it
NamedFace(move) ==
    CASE move = "R" -> RIGHT [] move = "L" -> LEFT [] move = "U" -> TOP
      [] move = "D" -> BOTTOM [] move = "F" -> FRONT [] move = "B" -> BACK

OppositeFace(f) ==
    CASE f = RIGHT -> LEFT [] f = LEFT -> RIGHT [] f = TOP -> BOTTOM
      [] f = BOTTOM -> TOP [] f = FRONT -> BACK [] f = BACK -> FRONT

\* the layer, counted from 1 at the face the letter names, of the facelet at
\* row i and column j of a side face f of that letter, on a cube of side n
LayerFrom(move, f, i, j, n) ==
    CASE move = "U" -> i + 1
      [] move = "D" -> n - i
      [] move = "R" -> IF f = BACK THEN j + 1 ELSE n - j
      [] move = "L" -> IF f = BACK THEN n - j ELSE j + 1
      [] move = "F" -> IF f \in {TOP, BOTTOM} THEN n - i
                       ELSE IF f = LEFT THEN n - j ELSE j + 1
      [] move = "B" -> IF f \in {TOP, BOTTOM} THEN i + 1
                       ELSE IF f = LEFT THEN j + 1 ELSE n - j

\* C25: a turn changes only what it addresses: turn(letter, d, layer, width)
\* leaves unchanged every facelet of the four side faces outside the band of
\* layers (layer - width, layer] counted from the named face, leaves the
\* named face unchanged unless layer = width, and the opposite face unchanged
\* unless layer = N; so a slice move changes neither capping face.
C25_TurnFrame ==
    last # NoTurn =>
        \A f \in 0..5, i \in 0..(N - 1), j \in 0..(N - 1) :
            cube[f][i][j] # prev[f][i][j] =>
                IF f = NamedFace(last.move) THEN last.layer = last.width
                ELSE IF f = OppositeFace(NamedFace(last.move)) THEN last.layer = N
                ELSE /\ last.layer - last.width < LayerFrom(last.move, f, i, j, N)
                     /\ LayerFrom(last.move, f, i, j, N) <= last.layer

\* the middle slice of a cube of side 3 was turned after a turn of another
\* axis had mixed the faces: the slice changed, both capping faces and the
\* layers next to them kept every facelet, mixed rows included
C25_Witness ==
    /\ N = 3 /\ nturns = 2 /\ last.layer = 2 /\ last.width = 1
    /\ cube # prev
    /\ cube[NamedFace(last.move)] = prev[NamedFace(last.move)]
    /\ cube[OppositeFace(NamedFace(last.move))] = prev[OppositeFace(NamedFace(last.move))]
    /\ \E i \in 0..2, j \in 0..2 :
          prev[NamedFace(last.move)][i][j] # prev[NamedFace(last.move)][1][1]
    /\ \E f \in 0..5, i \in 0..2, j \in 0..2 : cube[f][i][j] # prev[f][i][j]

\* the number of facelets of a cube c of side n that show the colour col
ColorCount(c, n, col) ==
    Cardinality({p \in (0..5) \X (0..(n - 1)) \X (0..(n - 1)) : c[p[1]][p[2]][p[3]] = col})

\* C26: every turn is a permutation of the facelets: it preserves the number
\* of facelets of each colour, so that every state reachable from the solved
\* cube holds exactly N*N facelets of each of the six colours.
C26_CountsKept ==
    /\ \A col \in 0..5 : ColorCount(cube, N, col) = N * N
    /\ last # NoTurn => \A col \in 0..5 : ColorCount(cube, N, col) = ColorCount(prev, N, col)

\* two turns of two layers at once, about different axes, have mixed every
\* face of a cube of side 3, which still holds nine facelets of each colour
C26_Witness ==
    /\ N = 3 /\ nturns = 2 /\ last.width = 2
    /\ \A f \in 0..5 : \E i \in 0..2, j \in 0..2 : cube[f][i][j] # cube[f][1][1]
    /\ prev # start /\ cube # prev
    /\ \A col \in 0..5 : ColorCount(cube, N, col) = 9

\* the cube c of side n after the rotation token rot is parsed, the turn
\* (move, t.dist, t.layer, t.width) is made, and rot' is parsed
Conjugated(c, n, rot, move, t) ==
    parse(turn(parse(c, n, <<Tok(rot)>>).cube, n, move, t.dist, t.layer, t.width),
          n, <<TokP(rot)>>).cube

\* C27: the six turn primitives agree with one another: for every state and
\* every (d, layer, width) with width <= layer <= N, parsing x, turning U and
\* parsing x' equals the same turn of F; y, a turn of R and y' equal the turn
\* of B; z, a turn of R and z' equal the turn of U; and a turn of all N
\* layers from R, U or F by d equals the turn of all N layers from L, D or B
\* by -d. (The turn compared is the latest one, made on the cube prev.)
C27_Conjugation ==
    last # NoTurn =>
        /\ last.move = "F" => Conjugated(prev, N, "x", "U", last) = cube
        /\ last.move = "B" => Conjugated(prev, N, "y", "R", last) = cube
        /\ last.move = "U" => Conjugated(prev, N, "z", "R", last) = cube
        /\ (last.layer = N /\ last.width = N) =>
               /\ last.move = "R" => turn(prev, N, "L", -last.dist, N, N) = cube
               /\ last.move = "U" => turn(prev, N, "D", -last.dist, N, N) = cube
               /\ last.move = "F" => turn(prev, N, "B", -last.dist, N, N) = cube

\* a turn of B of the two inner-and-far layers of a cube of side 3, made on a
\* cube that a turn about another axis had mixed, equals y, the same turn of
\* R, and y'
C27_Witness ==
    /\ N = 3 /\ nturns = 2
    /\ last.move = "B" /\ last.layer = 3 /\ last.width = 2 /\ last.dist = 1
    /\ prev # start /\ cube # prev
    /\ prev[BACK][0][0] # prev[BACK][2][2]
    /\ Conjugated(prev, N, "y", "R", last) = cube

\* the colour, on a 3x3 cube c, of the facelet of face a that touches every
\* face of the set others: the edge-mid facelet of a in the first layer from
\* the one face of others, or the corner facelet in the first layer from both
Touching(c, a, others) ==
    LET letter(f) == CHOOSE m \in Letters : NamedFace(m) = f
        p == CHOOSE q \in (0..2) \X (0..2) :
                 /\ \A b \in others : LayerFrom(letter(b), a, q[1], q[2], 3) = 1
                 /\ Cardinality(others) = 1 => (q[1] = 1 \/ q[2] = 1)
    IN c[a][p[1]][p[2]]

\* what a piece dictionary of the faces fs must be on the cube c
PieceOfFaces(c, piece, fs) ==
    /\ DOMAIN piece.f2c = fs
    /\ Cardinality(DOMAIN piece.c2f) = Cardinality(fs)
    /\ \A f \in fs : piece.f2c[f] = Touching(c, f, fs \ {f})
    /\ \A f \in fs : piece.c2f[piece.f2c[f]] = f
    /\ \A col \in DOMAIN piece.c2f : piece.f2c[piece.c2f[col]] = col
    /\ \A pair \in {{GREEN, BLUE}, {ORANGE, RED}, {WHITE, YELLOW}} :
           ~(pair \subseteq DOMAIN piece.c2f)

\* C28: in every 3x3 state reachable from the solved cube by legal turns,
\* get_edge_between returns, for every legal pair of faces, two entries in
\* c2f and in f2c, and get_corner_between three for every legal triple;
\* f2c[face] is the colour of the facelet of that face that touches the
\* other faces named, c2f is the inverse of f2c, and the colours of a piece
\* never include two opposite colours.
C28_Pieces ==
    N = 3 =>
        /\ \A a \in 0..5, b \in 0..5 :
               (a # b /\ ~IllegalEdge(a, b)) =>
                   PieceOfFaces(cube, get_edge_between(cube, a, b), {a, b})
        /\ \A a \in 0..5, b \in 0..5, c3 \in 0..5 :
               IllegalCorner(a, b, c3) = "none" =>
                   PieceOfFaces(cube, get_corner_between(cube, a, b, c3), {a, b, c3})

\* on a 3x3 that a slice turn and a turn of two layers have mixed, centres
\* included, the edge between FRONT and RIGHT and the corner of TOP, LEFT and
\* FRONT show none of the colours that their faces had on the solved cube
C28_Witness ==
    /\ N = 3 /\ nturns = 2
    /\ cube[FRONT][1][1] # start[FRONT][1][1]
    /\ \A f \in {FRONT, RIGHT} :
          get_edge_between(cube, FRONT, RIGHT).f2c[f] # start[f][1][1]
    /\ \A f \in {TOP, LEFT, FRONT} :
          get_corner_between(cube, TOP, LEFT, FRONT).f2c[f] # start[f][1][1]
    /\ PieceOfFaces(cube, get_corner_between(cube, TOP, LEFT, FRONT), {TOP, LEFT, FRONT})

\* C29: convert_3x3_moves_to_NxN commutes with the 3x3 reduction: for every
\* N >= 4, every NxN cube c in reduced form and every list m of move tokens
\* legal on a 3x3, parsing convert_3x3_moves_to_NxN(m, N) on c and then
\* taking get_3x3 gives the 3x3 state that parsing m on c.get_3x3() gives.
C29_ConvertCommutes ==
    call.op = "convert_3x3_moves_to_NxN" =>
        /\ call.err = "none"
        /\ call.out.converted.ok
        /\ call.out.converted.cube = call.out.direct

\* the same, for the lists whose tokens are upper-case turns of fewer than
\* three layers
C29_UpperCaseTurns ==
    ( /\ call.op = "convert_3x3_moves_to_NxN"
      /\ \A k \in 1..Len(call.args[2]) :
             /\ \E ch \in Letters : \E j \in 1..Len(call.args[2][k]) : call.args[2][k][j] = ch
             /\ call.args[2][k][1] # "3" ) =>
        /\ call.err = "none"
        /\ call.out.converted.ok
        /\ call.out.converted.cube = call.out.direct

====
